---- MODULE Spec2Model ----
(***************************************************************************)
(* Model of the meetup-scraper event reconciliation and export-state core: *)
(* modules/csv_manager.py, modules/calendar_generator.py,                  *)
(* modules/google_calendar.py, scraper.py, export_calendar.py and          *)
(* reset_calendar.py.                                                      *)
(*                                                                         *)
(* An event is a Python dict, modelled as a function from key names to     *)
(* values, so that an absent key and an empty value stay different.  The   *)
(* in-memory "dict keyed by event_url" is insertion-ordered and is         *)
(* modelled as a sequence of events with pairwise different event_url.     *)
(* events.csv is modelled as a header (set of columns) and a sequence of   *)
(* rows whose values are all text.                                         *)
(***************************************************************************)
EXTENDS Integers, Sequences, FiniteSets, TLC

VARIABLES
    store,        \* events.csv: [exists, header, rows]
    config,       \* config.json: [exists, json]
    today,        \* datetime.now().date(), as an index into IsoDays
    pc,           \* position of the running entry point
    mem,          \* existing_events / all_events / events of the entry point
    newEvents,    \* new_events of scraper.main
    gcalCount,    \* per event_url: entries created in the calendar service
    handed,       \* event_urls handed to a sink by the last gate batch
    eligibleUrls, \* event_urls selected as eligible by the last gate batch
    confirmed,    \* event_urls whose delivery the last gate batch confirmed
    lastOp,       \* last operation that completed on the store
    args,         \* arguments of a function under test
    ret,          \* its result
    fpc           \* "call" before the function ran, "return" after

mainVars == <<store, config, today, pc, mem, newEvents, gcalCount, handed,
              eligibleUrls, confirmed, lastOp>>
fnVars == <<args, ret, fpc>>
vars == <<store, config, today, pc, mem, newEvents, gcalCount, handed,
          eligibleUrls, confirmed, lastOp, args, ret, fpc>>

----------------------------------------------------------------------------
(* Bounds *)

MaxLen == 3       \* longest list handed to a function under test
MaxBatch == 2     \* most events scraped in one run
MaxDay == 2       \* last day the clock reaches
MaxDeliver == 2   \* cap of the per-identity delivery counter
MaxGroups == 2    \* most groups of config.json

----------------------------------------------------------------------------
(* Text values *)

\* ISO dates in calendar order; IsoDays[i] is day i.
IsoDays == <<"2025-01-01", "2025-01-02", "2025-01-03", "2025-01-04",
             "2025-01-05", "2025-01-06">>

\* datetime.strptime(date_str, "%Y-%m-%d"): the day, or 0 for ValueError.
strptime_date(s) ==
    IF \E i \in 1..Len(IsoDays) : IsoDays[i] = s
    THEN CHOOSE i \in 1..Len(IsoDays) : IsoDays[i] = s
    ELSE 0

\* strptime of the "%H:%M" part: TRUE when it parses.
strptime_time(s) == s \in {"19:00", "09:30"}

\* str.lower() on the texts that occur as flags and booleans.
lower(s) ==
    CASE s = "True" -> "true"
      [] s = "TRUE" -> "true"
      [] s = "False" -> "false"
      [] s = "Austin" -> "austin"
      [] s = " AUSTIN " -> " austin "
      [] s = "AUSTIN" -> "austin"
      [] s = "Dallas" -> "dallas"
      [] OTHER -> s

\* str.strip()
strip(s) ==
    CASE s = " AUSTIN " -> "AUSTIN"
      [] s = " austin " -> "austin"
      [] s = " " -> ""
      [] OTHER -> s

\* dict.get(key, default)
Get(e, k, d) == IF k \in DOMAIN e THEN e[k] ELSE d

\* e[key] = value
Put(e, k, v) == [x \in (DOMAIN e) \cup {k} |-> IF x = k THEN v ELSE e[x]]

\* The list of event_url of a list of events.
UrlsOf(events) == [i \in 1..Len(events) |-> Get(events[i], "event_url", "")]

\* Index of the entry stored under key url in an insertion-ordered dict, 0 if none.
IndexOf(events, url) ==
    IF \E i \in 1..Len(events) : events[i]["event_url"] = url
    THEN CHOOSE i \in 1..Len(events) : events[i]["event_url"] = url
    ELSE 0

Range(s) == {s[i] : i \in 1..Len(s)}

----------------------------------------------------------------------------
(* scraper.deduplicate_events *)

RECURSIVE DedupLoop(_, _, _, _)
DedupLoop(events, i, seen, unique) ==
    IF i > Len(events) THEN unique
    ELSE LET url == Get(events[i], "event_url", "")
         IN IF url # "" /\ url \notin seen
            THEN DedupLoop(events, i + 1, seen \cup {url}, Append(unique, events[i]))
            ELSE DedupLoop(events, i + 1, seen, unique)

\* Variant that forgets the seen set.
deduplicate_events_noseen(events) ==
    SelectSeq(events, LAMBDA e : Get(e, "event_url", "") # "")

\* Variant that accepts an empty event_url.
RECURSIVE DedupLoopNoCheck(_, _, _, _)
DedupLoopNoCheck(events, i, seen, unique) ==
    IF i > Len(events) THEN unique
    ELSE LET url == Get(events[i], "event_url", "")
         IN IF url \notin seen
            THEN DedupLoopNoCheck(events, i + 1, seen \cup {url}, Append(unique, events[i]))
            ELSE DedupLoopNoCheck(events, i + 1, seen, unique)

deduplicate_events_nocheck(events) == DedupLoopNoCheck(events, 1, {}, <<>>)

deduplicate_events(events) == DedupLoop(events, 1, {}, <<>>)

----------------------------------------------------------------------------
(* Function under test: deduplicate_events *)

\* Scraped records as the deduplicator may see them: with an event_url,
\* with an empty one, or without the key.
DedupPool ==
    {[title |-> t, event_url |-> u] : t \in {"T1", "T2"}, u \in {"a", "b", ""}}
    \cup {[title |-> t] : t \in {"T1", "T2"}}

SeqsUpTo(S, n) == UNION {[1..k -> S] : k \in 0..n}

\* config.json as scraper.load_config reads it; json is the parsed object,
\* credentials says that the OAuth token or client file of the calendar
\* service is on disk.
GoodConfig ==
    [exists |-> TRUE,
     json |-> [browserless_api_key |-> "key", groups |-> <<"group1">>,
               google_calendar |-> [enabled |-> TRUE]],
     credentials |-> TRUE]

\* Complete configurations in which the calendar service is not to be used.
GcalOffConfigs ==
    {[exists |-> TRUE,
      json |-> [browserless_api_key |-> "key", groups |-> <<"group1">>],
      credentials |-> TRUE],
     [exists |-> TRUE,
      json |-> [browserless_api_key |-> "key", groups |-> <<"group1">>,
                google_calendar |-> [enabled |-> FALSE]],
      credentials |-> TRUE],
     [exists |-> TRUE,
      json |-> [browserless_api_key |-> "key", groups |-> <<"group1">>,
                google_calendar |-> [enabled |-> TRUE]],
      credentials |-> FALSE]}

ConfigFiles ==
    {[exists |-> FALSE, json |-> <<>>, credentials |-> TRUE],
     [exists |-> TRUE, json |-> <<>>, credentials |-> TRUE],
     [exists |-> TRUE, json |-> [browserless_api_key |-> "key"], credentials |-> TRUE],
     [exists |-> TRUE, json |-> [browserless_api_key |-> "", groups |-> <<"group1">>],
      credentials |-> TRUE],
     [exists |-> TRUE, json |-> [browserless_api_key |-> "key", groups |-> <<>>],
      credentials |-> TRUE],
     GoodConfig}
    \cup GcalOffConfigs

\* Variant that takes a missing "enabled" for true.
GcalEnabled_default_on(file) ==
    Get(Get(file.json, "google_calendar", <<>>), "enabled", TRUE)

\* gcal_config.get("enabled") of scraper.main, line 442.
GcalEnabled(file) ==
    Get(Get(file.json, "google_calendar", <<>>), "enabled", FALSE)

\* Variant that looks only for the file, as reset_calendar.load_config does.
load_config_exists_only(file) ==
    IF ~file.exists THEN [raised |-> "FileNotFoundError", config |-> <<>>]
    ELSE [raised |-> "", config |-> file.json]

\* scraper.load_config: raised names the exception, "" when it returns.
load_config(file) ==
    IF ~file.exists THEN [raised |-> "FileNotFoundError", config |-> <<>>]
    ELSE IF Get(file.json, "browserless_api_key", "") = ""
    THEN [raised |-> "ValueError", config |-> <<>>]
    ELSE IF Get(file.json, "groups", <<>>) = <<>>
    THEN [raised |-> "ValueError", config |-> <<>>]
    ELSE [raised |-> "", config |-> file.json]

MainIdle ==
    /\ store = [exists |-> FALSE, header |-> {}, rows |-> <<>>]
    /\ config = GoodConfig
    /\ today = 1
    /\ pc = "off"
    /\ mem = <<>>
    /\ newEvents = <<>>
    /\ gcalCount = <<>>
    /\ handed = <<>>
    /\ eligibleUrls = <<>>
    /\ confirmed = <<>>
    /\ lastOp = "none"

InitDedup ==
    /\ MainIdle
    /\ args \in {[events |-> s] : s \in SeqsUpTo(DedupPool, MaxLen)}
    /\ ret = <<>>
    /\ fpc = "call"

CallDedup ==
    /\ fpc = "call"
    /\ ret' = deduplicate_events(args.events)
    /\ fpc' = "return"
    /\ UNCHANGED <<args, mainVars>>

NextDedup == CallDedup

SpecDedup == InitDedup /\ [][NextDedup]_vars

\* Index of the first record of events that carries event_url u.
FirstWith(events, u) ==
    CHOOSE i \in 1..Len(events) :
        /\ Get(events[i], "event_url", "") = u
        /\ \A j \in 1..(i - 1) : Get(events[j], "event_url", "") # u

\* The non-empty identities of a list of events.
Identities(events) == Range(UrlsOf(events)) \ {""}

\* C8: for any input sequence, every identity of the input occurs exactly
\* once in the output of deduplicate_events, and the record kept for it is
\* the first input record with that identity.
C8_DedupFirstOccurrence ==
    fpc = "return" =>
        \A u \in Identities(args.events) :
            /\ Cardinality({i \in 1..Len(ret) : Get(ret[i], "event_url", "") = u}) = 1
            /\ \A i \in 1..Len(ret) :
                   Get(ret[i], "event_url", "") = u =>
                       ret[i] = args.events[FirstWith(args.events, u)]

\* C8 witness: the input holds the same identity twice with different
\* fields, and the deduplicator has run.
C8_Witness ==
    /\ fpc = "return"
    /\ \E i, j \in 1..Len(args.events) :
           /\ i < j
           /\ Get(args.events[i], "event_url", "") = "a"
           /\ Get(args.events[j], "event_url", "") = "a"
           /\ args.events[i] # args.events[j]
    /\ Len(ret) >= 1

\* out is in with some positions removed, positions kept in order.
IsSubsequence(out, in) ==
    \E f \in [1..Len(out) -> 1..Len(in)] :
        /\ \A i \in 1..Len(out) : in[f[i]] = out[i]
        /\ \A i, j \in 1..Len(out) : i < j => f[i] < f[j]

\* C9: the output of deduplicate_events is a subsequence of the input in
\* first-seen order, holds every non-empty identity of the input, and holds
\* no record whose event_url is empty or missing.
C9_DedupOrderAndRejection ==
    fpc = "return" =>
        /\ IsSubsequence(ret, args.events)
        /\ \A i, j \in 1..Len(ret) :
               i < j => FirstWith(args.events, ret[i]["event_url"])
                          < FirstWith(args.events, ret[j]["event_url"])
        /\ Identities(ret) = Identities(args.events)
        /\ \A i \in 1..Len(ret) : Get(ret[i], "event_url", "") # ""

\* C9 witness: the input holds a record without identity between two
\* different identities, and the deduplicator has run.
C9_Witness ==
    /\ fpc = "return"
    /\ Len(args.events) = 3
    /\ Get(args.events[1], "event_url", "") = "b"
    /\ Get(args.events[2], "event_url", "") = ""
    /\ Get(args.events[3], "event_url", "") = "a"
    /\ Len(ret) = 2

----------------------------------------------------------------------------
(* csv_manager.update_event_statuses *)

\* Variant that counts the day of the event itself as past.
classify_inclusive(event, now) ==
    LET date_str == Get(event, "date", "")
    IN IF date_str = "" THEN Put(event, "status", "UPCOMING")
       ELSE IF strptime_date(date_str) = 0 THEN Put(event, "status", "UPCOMING")
       ELSE IF strptime_date(date_str) <= now THEN Put(event, "status", "DONE")
       ELSE Put(event, "status", "UPCOMING")

\* Body of the loop for one event; now is datetime.now().date().
classify(event, now) ==
    LET date_str == Get(event, "date", "")
    IN IF date_str = "" THEN Put(event, "status", "UPCOMING")
       ELSE IF strptime_date(date_str) = 0 THEN Put(event, "status", "UPCOMING")
       ELSE IF strptime_date(date_str) < now THEN Put(event, "status", "DONE")
       ELSE Put(event, "status", "UPCOMING")

update_event_statuses(events, now) ==
    [i \in 1..Len(events) |-> classify(events[i], now)]

----------------------------------------------------------------------------
(* Function under test: update_event_statuses *)

\* Date texts: the days of the clock, an empty text and a text that is no date.
DateTexts == {IsoDays[i] : i \in 1..MaxDay} \cup {"", "TBD"}

\* Records as loaded, with any stored status, and records without date or
\* status key.
StatusPool(u) ==
    {[event_url |-> u, date |-> d, status |-> st] :
        d \in DateTexts, st \in {"UPCOMING", "DONE"}}
    \cup {[event_url |-> u, date |-> d] : d \in DateTexts}
    \cup {[event_url |-> u]}

\* Insertion-ordered dicts with at most two keys, their values drawn from Pa and Pb.
DictsOver(Pa, Pb) ==
    {<<>>} \cup {<<x>> : x \in Pa \cup Pb}
    \cup {<<x, y>> : x \in Pa, y \in Pb}
    \cup {<<y, x>> : x \in Pa, y \in Pb}

InitStatus ==
    /\ MainIdle
    /\ args \in {[events |-> s, now |-> n] :
                    s \in DictsOver(StatusPool("a"), StatusPool("b")), n \in 1..(MaxDay + 1)}
    /\ ret = <<>>
    /\ fpc = "call"

CallStatus ==
    /\ fpc = "call"
    /\ ret' = update_event_statuses(args.events, args.now)
    /\ fpc' = "return"
    /\ UNCHANGED <<args, mainVars>>

NextStatus == CallStatus

SpecStatus == InitStatus /\ [][NextStatus]_vars

\* The day a date text names, 0 if it names none.
DayOf(text) == IF \E i \in 1..Len(IsoDays) : IsoDays[i] = text
               THEN CHOOSE i \in 1..Len(IsoDays) : IsoDays[i] = text
               ELSE 0

\* C10: for a record with date D, update_event_statuses sets DONE when
\* today is D+1 or later and UPCOMING when today is D or earlier; for a
\* missing or unparseable date it sets UPCOMING whatever today is.
C10_StatusClassification ==
    fpc = "return" =>
        /\ Len(ret) = Len(args.events)
        /\ \A i \in 1..Len(ret) :
              LET text == IF "date" \in DOMAIN args.events[i]
                          THEN args.events[i]["date"] ELSE ""
                  D == DayOf(text)
              IN /\ "status" \in DOMAIN ret[i]
                 /\ (D # 0 /\ args.now >= D + 1) => ret[i]["status"] = "DONE"
                 /\ (D # 0 /\ args.now <= D) => ret[i]["status"] = "UPCOMING"
                 /\ D = 0 => ret[i]["status"] = "UPCOMING"

\* C10 witness: one record dated the day before today came back DONE and
\* one record with an unparseable date, stored as DONE, came back UPCOMING.
C10_Witness ==
    /\ fpc = "return"
    /\ Len(ret) = 2
    /\ args.now = 3
    /\ args.events[1] = [event_url |-> "a", date |-> IsoDays[2], status |-> "UPCOMING"]
    /\ ret[1]["status"] = "DONE"
    /\ args.events[2] = [event_url |-> "b", date |-> "TBD", status |-> "DONE"]
    /\ ret[2]["status"] = "UPCOMING"

----------------------------------------------------------------------------
(* csv_manager.merge_events *)

\* Variant that stores the observation over a known record.
RECURSIVE MergeLoopOverwrite(_, _, _, _)
MergeLoopOverwrite(existing, new, i, newly_added) ==
    IF i > Len(new) THEN [all |-> existing, added |-> newly_added]
    ELSE LET url == Get(new[i], "event_url", "")
             event == Put(new[i], "status", "UPCOMING")
             k == IndexOf(existing, url)
         IN IF url = "" THEN MergeLoopOverwrite(existing, new, i + 1, newly_added)
            ELSE IF k = 0
            THEN MergeLoopOverwrite(Append(existing, event), new, i + 1,
                                    Append(newly_added, event))
            ELSE MergeLoopOverwrite([existing EXCEPT ![k] = event], new, i + 1,
                                    newly_added)

merge_events_overwrite(existing, new) == MergeLoopOverwrite(existing, new, 1, <<>>)

\* Variant that stores a new event without setting its status.
RECURSIVE MergeLoopNoStatus(_, _, _, _)
MergeLoopNoStatus(existing, new, i, newly_added) ==
    IF i > Len(new) THEN [all |-> existing, added |-> newly_added]
    ELSE LET url == Get(new[i], "event_url", "")
         IN IF url = "" THEN MergeLoopNoStatus(existing, new, i + 1, newly_added)
            ELSE IF IndexOf(existing, url) = 0
            THEN MergeLoopNoStatus(Append(existing, new[i]), new, i + 1,
                                   Append(newly_added, new[i]))
            ELSE MergeLoopNoStatus(existing, new, i + 1, newly_added)

merge_events_nostatus(existing, new) == MergeLoopNoStatus(existing, new, 1, <<>>)

\* Variant that puts each new event at the head of newly_added.
RECURSIVE MergeLoopPrepend(_, _, _, _)
MergeLoopPrepend(existing, new, i, newly_added) ==
    IF i > Len(new) THEN [all |-> existing, added |-> newly_added]
    ELSE LET url == Get(new[i], "event_url", "")
             event == Put(new[i], "status", "UPCOMING")
         IN IF url = "" THEN MergeLoopPrepend(existing, new, i + 1, newly_added)
            ELSE IF IndexOf(existing, url) = 0
            THEN MergeLoopPrepend(Append(existing, event), new, i + 1,
                                  <<event>> \o newly_added)
            ELSE MergeLoopPrepend(existing, new, i + 1, newly_added)

merge_events_prepend(existing, new) == MergeLoopPrepend(existing, new, 1, <<>>)

\* Variant that lists an observed record as newly added also when its
\* event_url is known.
RECURSIVE MergeLoopRelist(_, _, _, _)
MergeLoopRelist(existing, new, i, newly_added) ==
    IF i > Len(new) THEN [all |-> existing, added |-> newly_added]
    ELSE LET url == Get(new[i], "event_url", "")
             event == Put(new[i], "status", "UPCOMING")
         IN IF url = "" THEN MergeLoopRelist(existing, new, i + 1, newly_added)
            ELSE IF IndexOf(existing, url) = 0
            THEN MergeLoopRelist(Append(existing, event), new, i + 1,
                                 Append(newly_added, event))
            ELSE MergeLoopRelist(existing, new, i + 1, Append(newly_added, event))

merge_events_relist(existing, new) == MergeLoopRelist(existing, new, 1, <<>>)

\* Variant that sets the status of a known record back to UPCOMING when
\* the record is observed again.
RECURSIVE MergeLoopRevive(_, _, _, _)
MergeLoopRevive(existing, new, i, newly_added) ==
    IF i > Len(new) THEN [all |-> existing, added |-> newly_added]
    ELSE LET url == Get(new[i], "event_url", "")
             event == Put(new[i], "status", "UPCOMING")
             k == IndexOf(existing, url)
         IN IF url = "" THEN MergeLoopRevive(existing, new, i + 1, newly_added)
            ELSE IF k = 0
            THEN MergeLoopRevive(Append(existing, event), new, i + 1,
                                 Append(newly_added, event))
            ELSE MergeLoopRevive([existing EXCEPT ![k] = Put(existing[k], "status", "UPCOMING")],
                                 new, i + 1, newly_added)

merge_events_revive(existing, new) == MergeLoopRevive(existing, new, 1, <<>>)

\* Variant in which a later observation of an identity added by this call
\* replaces the earlier one.
RECURSIVE MergeLoopLastWins(_, _, _, _)
MergeLoopLastWins(existing, new, i, newly_added) ==
    IF i > Len(new) THEN [all |-> existing, added |-> newly_added]
    ELSE LET url == Get(new[i], "event_url", "")
             event == Put(new[i], "status", "UPCOMING")
             k == IndexOf(existing, url)
             n == IndexOf(newly_added, url)
         IN IF url = "" THEN MergeLoopLastWins(existing, new, i + 1, newly_added)
            ELSE IF k = 0
            THEN MergeLoopLastWins(Append(existing, event), new, i + 1,
                                   Append(newly_added, event))
            ELSE IF n # 0
            THEN MergeLoopLastWins([existing EXCEPT ![k] = event], new, i + 1,
                                   [newly_added EXCEPT ![n] = event])
            ELSE MergeLoopLastWins(existing, new, i + 1, newly_added)

merge_events_lastwins(existing, new) == MergeLoopLastWins(existing, new, 1, <<>>)

RECURSIVE MergeLoop(_, _, _, _)
MergeLoop(existing, new, i, newly_added) ==
    IF i > Len(new) THEN [all |-> existing, added |-> newly_added]
    ELSE LET url == Get(new[i], "event_url", "")
             event == Put(new[i], "status", "UPCOMING")
         IN IF url = "" THEN MergeLoop(existing, new, i + 1, newly_added)
            ELSE IF IndexOf(existing, url) = 0
            THEN MergeLoop(Append(existing, event), new, i + 1,
                           Append(newly_added, event))
            ELSE MergeLoop(existing, new, i + 1, newly_added)

\* Returns the pair (all_events, newly_added) as [all, added].
merge_events(existing, new) == MergeLoop(existing, new, 1, <<>>)

----------------------------------------------------------------------------
(* Function under test: merge_events *)

\* Persisted records as they are after load and classification: any status,
\* any calendar_exported, gcal_synced present only when the file has the column.
PersistedPool(u) ==
    {[event_url |-> u, title |-> "T0", date |-> IsoDays[1], sales_rep |-> "Rep1",
      status |-> st, calendar_exported |-> x] :
        st \in {"UPCOMING", "DONE"}, x \in {"", "True"}}
    \cup {[event_url |-> u, title |-> "T0", date |-> IsoDays[1], sales_rep |-> "Rep1",
           status |-> st, calendar_exported |-> x, gcal_synced |-> g] :
        st \in {"UPCOMING", "DONE"}, x \in {"", "True"}, g \in {"", "True"}}

\* Observations as extract_event_data builds them: no status, no flag, and
\* title, date and sales_rep different from every persisted record.
ObservedPool ==
    {[event_url |-> u, title |-> t, date |-> IsoDays[2], sales_rep |-> "Rep2"] :
        u \in {"a", "b", ""}, t \in {"T1", "T2"}}

InitMerge ==
    /\ MainIdle
    /\ args \in {[existing |-> e, new |-> n] :
                    e \in DictsOver(PersistedPool("a"), PersistedPool("b")), n \in SeqsUpTo(ObservedPool, MaxLen)}
    /\ ret = <<>>
    /\ fpc = "call"

CallMerge ==
    /\ fpc = "call"
    /\ ret' = merge_events(args.existing, args.new)
    /\ fpc' = "return"
    /\ UNCHANGED <<args, mainVars>>

NextMerge == CallMerge

SpecMerge == InitMerge /\ [][NextMerge]_vars

\* The entries of a list of events that carry event_url u.
EntriesOf(events, u) == {i \in 1..Len(events) : Get(events[i], "event_url", "") = u}

\* A sink flag text counts as set.
FlagSet(e, flag) == flag \in DOMAIN e /\ e[flag] \in {"True", "true", "TRUE"}

\* C1: for every persisted record P and every observed record O with the
\* same event_url, merge_events leaves every field of P, sink flags
\* included, exactly as it was, whatever O carries.
C1_MergeKeepsPersisted ==
    fpc = "return" =>
        \A i \in 1..Len(args.existing) :
            LET P == args.existing[i]
            IN (\E j \in 1..Len(args.new) : args.new[j]["event_url"] = P["event_url"])
               => /\ Cardinality(EntriesOf(ret.all, P["event_url"])) = 1
                  /\ \A k \in EntriesOf(ret.all, P["event_url"]) : ret.all[k] = P

\* C1 witness: a persisted record with both sink flags set met an
\* observation of the same identity with another title, and the merge ran.
C1_Witness ==
    /\ fpc = "return"
    /\ Len(args.existing) >= 1
    /\ args.existing[1]["event_url"] = "a"
    /\ FlagSet(args.existing[1], "calendar_exported")
    /\ FlagSet(args.existing[1], "gcal_synced")
    /\ \E j \in 1..Len(args.new) :
           /\ args.new[j]["event_url"] = "a"
           /\ args.new[j]["title"] # args.existing[1]["title"]

\* C2: every identity of the observed batch that is not in the persisted
\* set before merge_events is, after it, exactly once in the persisted set
\* and exactly once in the newly-added list, with status UPCOMING and no
\* sink flag set.
C2_NewEventCompleteness ==
    fpc = "return" =>
        \A u \in Identities(args.new) \ Identities(args.existing) :
            /\ Cardinality(EntriesOf(ret.all, u)) = 1
            /\ Cardinality(EntriesOf(ret.added, u)) = 1
            /\ \A k \in EntriesOf(ret.all, u) :
                   /\ "status" \in DOMAIN ret.all[k]
                   /\ ret.all[k]["status"] = "UPCOMING"
                   /\ ~FlagSet(ret.all[k], "calendar_exported")
                   /\ ~FlagSet(ret.all[k], "gcal_synced")
            /\ \A k \in EntriesOf(ret.added, u) :
                   /\ "status" \in DOMAIN ret.added[k]
                   /\ ret.added[k]["status"] = "UPCOMING"
                   /\ ~FlagSet(ret.added[k], "calendar_exported")
                   /\ ~FlagSet(ret.added[k], "gcal_synced")

\* C2 witness: the batch held a known identity and a new one, and the merge
\* added the new one.
C2_Witness ==
    /\ fpc = "return"
    /\ Identities(args.existing) = {"a"}
    /\ Identities(args.new) = {"a", "b"}
    /\ Len(ret.added) = 1
    /\ ret.added[1]["event_url"] = "b"

----------------------------------------------------------------------------
(* csv_manager: events.csv *)

\* The columns save_events writes.  The five free-text columns that no step
\* of the core reads (description, venue_name, address, group_name,
\* group_url) are left out of the model.
FIELDNAMES == {"title", "date", "time", "event_url", "is_online", "sales_rep",
               "status", "calendar_exported"}

NoFile == [exists |-> FALSE, header |-> {}, rows |-> <<>>]

\* csv.DictWriter writes str(value); only is_online is not text in memory.
Text(k, v) == IF k = "is_online" THEN (IF v THEN "True" ELSE "False") ELSE v

\* One row: the FIELDNAMES columns, "" for a missing key, other keys ignored.
WriteRow(e) == [k \in FIELDNAMES |-> IF k \in DOMAIN e THEN Text(k, e[k]) ELSE ""]

\* Order of str comparison on the sort keys that occur.
LexRank(s) ==
    CASE s = "" -> 0
      [] s = "9999-99-99" -> 100
      [] s = "TBD" -> 101
      [] OTHER -> strptime_date(s)

\* list.sort is stable: x goes after every element whose key is not larger.
RECURSIVE InsertByDate(_, _)
InsertByDate(sorted, x) ==
    IF sorted = <<>> THEN <<x>>
    ELSE IF LexRank(Get(sorted[Len(sorted)], "date", "9999-99-99"))
              <= LexRank(Get(x, "date", "9999-99-99"))
         THEN Append(sorted, x)
         ELSE Append(InsertByDate(SubSeq(sorted, 1, Len(sorted) - 1), x),
                     sorted[Len(sorted)])

RECURSIVE SortByDate(_)
SortByDate(list) ==
    IF list = <<>> THEN <<>>
    ELSE InsertByDate(SortByDate(SubSeq(list, 1, Len(list) - 1)), list[Len(list)])

\* Variant that writes the file also for an empty dict: the header alone.
save_events_always(events, file) ==
    LET event_list == SortByDate(events)
    IN [exists |-> TRUE, header |-> FIELDNAMES,
        rows |-> [i \in 1..Len(event_list) |-> WriteRow(event_list[i])]]

\* Variant that keeps the rows of the file whose event_url the dict lacks.
save_events_keep_file(events, file) ==
    IF events = <<>> THEN file
    ELSE LET event_list == SortByDate(events)
             kept == SelectSeq(file.rows, LAMBDA row :
                         \A i \in 1..Len(events) :
                             Get(events[i], "event_url", "") # Get(row, "event_url", ""))
         IN [exists |-> TRUE, header |-> FIELDNAMES,
             rows |-> [i \in 1..Len(event_list) |-> WriteRow(event_list[i])] \o kept]

\* Variant that writes the UPCOMING events only.
save_events_upcoming(events, file) ==
    IF events = <<>> THEN file
    ELSE LET event_list ==
                 SortByDate(SelectSeq(events, LAMBDA e : Get(e, "status", "") = "UPCOMING"))
         IN [exists |-> TRUE, header |-> FIELDNAMES,
             rows |-> [i \in 1..Len(event_list) |-> WriteRow(event_list[i])]]

\* The file after save_events(events): unchanged for an empty dict.
save_events(events, file) ==
    IF events = <<>> THEN file
    ELSE LET event_list == SortByDate(events)
         IN [exists |-> TRUE, header |-> FIELDNAMES,
             rows |-> [i \in 1..Len(event_list) |-> WriteRow(event_list[i])]]

\* events[url] = row: a known key keeps its position.
DictSet(events, url, row) ==
    IF IndexOf(events, url) = 0 THEN Append(events, row)
    ELSE [events EXCEPT ![IndexOf(events, url)] = row]

\* open(path, "r") reads with universal newlines: "\r\n" and "\r" inside a
\* field reach csv.DictReader as "\n".  Table over the texts that occur.
UniversalNewlines(s) ==
    CASE s = "Kafka\r\nnight" -> "Kafka\nnight"
      [] s = "Kafka\rnight" -> "Kafka\nnight"
      [] OTHER -> s

\* The row as csv.DictReader yields it from the text of the file.
ReadRow(row) == [k \in DOMAIN row |-> UniversalNewlines(row[k])]

RECURSIVE LoadLoop(_, _, _)
LoadLoop(rows, i, events) ==
    IF i > Len(rows) THEN events
    ELSE LET row == ReadRow(rows[i])
             url == Get(row, "event_url", "")
             r1 == IF "is_online" \in DOMAIN row
                   THEN Put(row, "is_online", lower(row["is_online"]) = "true")
                   ELSE row
             r2 == IF "status" \notin DOMAIN r1 \/ r1["status"] = ""
                   THEN Put(r1, "status", "UPCOMING")
                   ELSE r1
         IN IF url # "" THEN LoadLoop(rows, i + 1, DictSet(events, url, r2))
            ELSE LoadLoop(rows, i + 1, events)

\* Variant that keeps every row, also one whose event_url is empty.
RECURSIVE LoadLoopAnyUrl(_, _, _)
LoadLoopAnyUrl(rows, i, events) ==
    IF i > Len(rows) THEN events
    ELSE LET row == ReadRow(rows[i])
             url == Get(row, "event_url", "")
             r0 == Put(row, "event_url", url)
             r1 == IF "is_online" \in DOMAIN r0
                   THEN Put(r0, "is_online", lower(r0["is_online"]) = "true")
                   ELSE r0
             r2 == IF "status" \notin DOMAIN r1 \/ r1["status"] = ""
                   THEN Put(r1, "status", "UPCOMING")
                   ELSE r1
         IN LoadLoopAnyUrl(rows, i + 1, DictSet(events, url, r2))

load_existing_events_anyurl(file) ==
    IF ~file.exists THEN <<>> ELSE LoadLoopAnyUrl(file.rows, 1, <<>>)

load_existing_events(file) ==
    IF ~file.exists THEN <<>> ELSE LoadLoop(file.rows, 1, <<>>)

\* events[url][flag] = "True" for every url of urls that is a key.
MarkFlag(events, urls, flag) ==
    [i \in 1..Len(events) |->
        IF events[i]["event_url"] \in Range(urls)
        THEN Put(events[i], flag, "True")
        ELSE events[i]]

mark_calendar_exported(events, exported_urls) ==
    MarkFlag(events, exported_urls, "calendar_exported")

\* Imported by scraper.py from csv_manager, which does not define it.
mark_gcal_synced(events, synced_urls) ==
    MarkFlag(events, synced_urls, "gcal_synced")

----------------------------------------------------------------------------
(* scraper: filter_upcoming, assign_rep_by_territory *)

\* Variant that keeps every event, whatever its date.
filter_upcoming_all(events, now) == events

filter_upcoming(events, now) ==
    SelectSeq(events, LAMBDA e :
        \/ Get(e, "date", "") = ""
        \/ strptime_date(e["date"]) = 0
        \/ strptime_date(e["date"]) >= now)

\* Variant that compares the city as it is written, without strip().
assign_rep_by_territory_nostrip(events, territories) ==
    IF DOMAIN territories = {} THEN events
    ELSE [i \in 1..Len(events) |->
            LET e == events[i]
                city == Get(e, "city", "")
                keys == {k \in DOMAIN territories : lower(k) = lower(city)}
                new_rep == territories[CHOOSE k \in keys : TRUE]
            IN IF Get(e, "is_online", FALSE) THEN e
               ELSE IF city = "" THEN e
               ELSE IF keys # {} /\ Get(e, "sales_rep", "") # new_rep
               THEN Put(e, "sales_rep", new_rep)
               ELSE e]

\* territories maps a city name to a sales rep; no two keys of it differ
\* only in case.
assign_rep_by_territory(events, territories) ==
    IF DOMAIN territories = {} THEN events
    ELSE [i \in 1..Len(events) |->
            LET e == events[i]
                city == strip(Get(e, "city", ""))
                keys == {k \in DOMAIN territories : lower(k) = lower(city)}
                new_rep == territories[CHOOSE k \in keys : TRUE]
            IN IF Get(e, "is_online", FALSE) THEN e
               ELSE IF city = "" THEN e
               ELSE IF keys # {} /\ Get(e, "sales_rep", "") # new_rep
               THEN Put(e, "sales_rep", new_rep)
               ELSE e]

----------------------------------------------------------------------------
(* calendar_generator.generate_combined_ics, google_calendar *)

\* The date and time of an event parse (lines 204-215 of either module).
Parses(e) ==
    /\ Get(e, "date", "") # ""
    /\ strptime_date(e["date"]) # 0
    /\ Get(e, "time", "") # "" => strptime_time(e["time"])

\* The filter of a gate on its own flag.
Selected(e, flag) ==
    /\ Get(e, "status", "UPCOMING") = "UPCOMING"
    /\ lower(Get(e, flag, "")) # "true"

\* Variant that selects on the flag only.
generate_combined_ics_anystatus(events) ==
    LET event_list == SelectSeq(events, LAMBDA e : lower(Get(e, "calendar_exported", "")) # "true")
        added == SelectSeq(event_list, Parses)
    IN [eligible |-> UrlsOf(event_list),
        added |-> IF added = <<>> THEN <<>> ELSE UrlsOf(added),
        exported_urls |-> IF added = <<>> THEN <<>> ELSE UrlsOf(added),
        filepath |-> added # <<>>]

\* Variant that lists an event before looking at its date.
generate_combined_ics_listall(events) ==
    LET event_list == SelectSeq(events, LAMBDA e : Selected(e, "calendar_exported"))
        added == SelectSeq(event_list, Parses)
    IN [eligible |-> UrlsOf(event_list),
        added |-> IF added = <<>> THEN <<>> ELSE UrlsOf(added),
        exported_urls |-> IF added = <<>> THEN <<>> ELSE UrlsOf(event_list),
        filepath |-> added # <<>>]

\* Variant that does not look at calendar_exported.
generate_combined_ics_anyflag(events) ==
    LET event_list == SelectSeq(events, LAMBDA e : Get(e, "status", "UPCOMING") = "UPCOMING")
        added == SelectSeq(event_list, Parses)
    IN [eligible |-> UrlsOf(event_list),
        added |-> IF added = <<>> THEN <<>> ELSE UrlsOf(added),
        exported_urls |-> IF added = <<>> THEN <<>> ELSE UrlsOf(added),
        filepath |-> added # <<>>]

\* eligible: the filtered event_list; added: the entries put into the
\* calendar file; exported_urls and filepath: the returned pair (filepath as
\* "a path was returned").
generate_combined_ics(events) ==
    LET event_list == SelectSeq(events, LAMBDA e : Selected(e, "calendar_exported"))
        added == SelectSeq(event_list, Parses)
    IN [eligible |-> UrlsOf(event_list),
        added |-> IF added = <<>> THEN <<>> ELSE UrlsOf(added),
        exported_urls |-> IF added = <<>> THEN <<>> ELSE UrlsOf(added),
        filepath |-> added # <<>>]

\* create_calendar_event returns an id: the event parses and the insert
\* call is not answered with HttpError (rejected: the urls the service refuses).
Created(e, rejected) == Parses(e) /\ e["event_url"] \notin rejected

\* Variant that also returns the url of a record skipped for want of an address.
sync_to_google_calendar_skipped_synced(events, rep_emails, rejected) ==
    LET to_sync == SelectSeq(events, LAMBDA e : Selected(e, "gcal_synced"))
        with_email == SelectSeq(to_sync, LAMBDA e : Get(e, "sales_rep", "") \in DOMAIN rep_emails)
    IN [eligible |-> UrlsOf(to_sync),
        inserted |-> UrlsOf(SelectSeq(with_email, Parses)),
        created |-> UrlsOf(SelectSeq(with_email, LAMBDA e : Created(e, rejected))),
        synced_urls |-> UrlsOf(SelectSeq(to_sync, LAMBDA e :
                            \/ Get(e, "sales_rep", "") \notin DOMAIN rep_emails
                            \/ Created(e, rejected)))]

\* Variant that reports every attempted event as synced.
sync_to_google_calendar_nocheck(events, rep_emails, rejected) ==
    LET to_sync == SelectSeq(events, LAMBDA e : Selected(e, "gcal_synced"))
        with_email == SelectSeq(to_sync, LAMBDA e : Get(e, "sales_rep", "") \in DOMAIN rep_emails)
    IN [eligible |-> UrlsOf(to_sync),
        inserted |-> UrlsOf(SelectSeq(with_email, Parses)),
        created |-> UrlsOf(SelectSeq(with_email, LAMBDA e : Created(e, rejected))),
        synced_urls |-> UrlsOf(with_email)]

\* eligible: to_sync; inserted: the events for which events().insert was
\* called; created: the inserts that succeeded; synced_urls: the return value.
sync_to_google_calendar(events, rep_emails, rejected) ==
    LET to_sync == SelectSeq(events, LAMBDA e : Selected(e, "gcal_synced"))
        with_email == SelectSeq(to_sync, LAMBDA e : Get(e, "sales_rep", "") \in DOMAIN rep_emails)
    IN [eligible |-> UrlsOf(to_sync),
        inserted |-> UrlsOf(SelectSeq(with_email, Parses)),
        created |-> UrlsOf(SelectSeq(with_email, LAMBDA e : Created(e, rejected))),
        synced_urls |-> UrlsOf(SelectSeq(with_email, LAMBDA e : Created(e, rejected)))]

\* hashlib.md5(url.encode()).hexdigest(): a text that depends on url only.
md5(url) == <<"md5", url>>

\* The entry generate_combined_ics adds for an event whose date parses.
ical_event(e) ==
    [summary |-> <<Get(e, "title", "Meetup Event"), Get(e, "sales_rep", "")>>,
     dtstart |-> <<e["date"], IF Get(e, "time", "") # "" THEN e["time"] ELSE "18:00">>,
     uid |-> <<md5(Get(e, "event_url", "")), "@meetup-scraper">>]

\* The body create_calendar_event passes to events().insert.
event_body(e, rep_email) ==
    [summary |-> Get(e, "title", "Meetup Event"),
     location |-> IF Get(e, "is_online", FALSE) THEN "Online" ELSE "",
     description |-> <<Get(e, "sales_rep", ""), Get(e, "event_url", "")>>,
     start |-> <<e["date"], IF Get(e, "time", "") # "" THEN e["time"] ELSE "18:00">>,
     end |-> <<e["date"], IF Get(e, "time", "") # "" THEN e["time"] ELSE "18:00", 2>>,
     source |-> [title |-> "", url |-> Get(e, "event_url", "")],
     attendees |-> <<rep_email>>]

\* events().insert answers HttpError 409 when the body names an id or an
\* iCalUID that an entry of the calendar has; without one it makes a new
\* entry under an id of its own.
DuplicateRefused(body, entries) ==
    /\ entries > 0
    /\ {"id", "iCalUID"} \cap DOMAIN body # {}

----------------------------------------------------------------------------
(* The entry points: scraper.py and export_calendar.py on one events.csv *)

Urls == {"a", "b"}

\* config.json: territories and rep_emails.  Rep2 has no address.
Territories == ("Austin" :> "Rep1")
RepEmails == ("Rep1" :> "rep1@example.com")

\* What extract_event_data returns for the event at url u whose dateTime
\* gives date text d ("" when dateTime is absent or does not parse).
Scraped(u, d) ==
    [title |-> IF u = "a" THEN "Kafka night" ELSE "Flink day",
     date |-> d,
     time |-> IF d = "" THEN "" ELSE "19:00",
     event_url |-> u,
     city |-> IF u = "a" THEN "Austin" ELSE "",
     is_online |-> FALSE,
     sales_rep |-> "Rep2"]

ScrapePool == {Scraped(u, d) : u \in Urls, d \in {IsoDays[i] : i \in 1..MaxDay} \cup {""}}

\* A file written when the gcal_synced column was still among the columns.
LegacyRow(u, d, g) ==
    Put(WriteRow(Put(Put(Scraped(u, d), "sales_rep", "Rep1"), "status", "UPCOMING")),
        "gcal_synced", g)

LegacyStores ==
    {[exists |-> TRUE, header |-> FIELDNAMES \cup {"gcal_synced"},
      rows |-> <<LegacyRow("a", IsoDays[1], g)>>] : g \in {"", "True"}}

\* The row of event_url u in a file has the flag set.
RowFlagSet(file, u, flag) ==
    \E i \in 1..Len(file.rows) :
        /\ file.rows[i]["event_url"] = u
        /\ flag \in DOMAIN file.rows[i]
        /\ lower(file.rows[i][flag]) = "true"

Init ==
    /\ store \in {NoFile} \cup LegacyStores
    /\ config \in ConfigFiles
    /\ today = 1
    /\ pc = "idle"
    /\ mem = <<>>
    /\ newEvents = <<>>
    /\ gcalCount = [u \in Urls |-> IF RowFlagSet(store, u, "gcal_synced") THEN 1 ELSE 0]
    /\ handed = <<>>
    /\ eligibleUrls = <<>>
    /\ confirmed = <<>>
    /\ lastOp = "none"
    /\ args = <<>>
    /\ ret = <<>>
    /\ fpc = "off"

\* The date changes between two invocations.
Tick ==
    /\ pc = "idle"
    /\ today < MaxDay
    /\ today' = today + 1
    /\ lastOp' = "tick"
    /\ UNCHANGED <<store, pc, mem, newEvents, gcalCount, handed, eligibleUrls,
                   confirmed, config, fnVars>>

\* scraper.main, lines 349-354: load_config raises, sys.exit(1).
ScraperConfigError ==
    /\ pc = "idle"
    /\ load_config(config).raised # ""
    /\ pc' = "config_error"
    /\ UNCHANGED <<store, today, mem, newEvents, gcalCount, handed, eligibleUrls,
                   confirmed, lastOp, config, fnVars>>

\* The process has ended; the next invocation starts from the files.
ScraperExit ==
    /\ pc = "config_error"
    /\ pc' = "idle"
    /\ UNCHANGED <<store, today, mem, newEvents, gcalCount, handed, eligibleUrls,
                   confirmed, lastOp, config, fnVars>>

\* scraper.main, lines 349-369.
ScraperLoad ==
    /\ pc = "idle"
    /\ load_config(config).raised = ""
    /\ mem' = update_event_statuses(load_existing_events(store), today)
    /\ pc' = "loaded"
    /\ UNCHANGED <<store, today, newEvents, gcalCount, handed, eligibleUrls,
                   confirmed, lastOp, config, fnVars>>

\* What lines 386-412 of scraper.main hand on, by day: the batches that
\* parse_events can return over all groups, filtered and deduplicated.
UpcomingBatches ==
    [d \in 1..MaxDay |->
        {deduplicate_events(filter_upcoming(batch, d)) :
             batch \in SeqsUpTo(ScrapePool, MaxBatch)}]

\* scraper.main, lines 386-431: batch is what parse_events returned over
\* all groups.
ScraperMerge ==
    /\ pc = "loaded"
    /\ \E deduplicated \in UpcomingBatches[today] :
         LET all_scraped_events == assign_rep_by_territory(deduplicated, Territories)
             m == merge_events(mem, all_scraped_events)
         IN /\ mem' = m.all
            /\ newEvents' = m.added
            /\ store' = save_events(m.all, store)
    /\ pc' = "merged"
    /\ UNCHANGED <<today, gcalCount, handed, eligibleUrls, confirmed, lastOp, config, fnVars>>

\* scraper.main, lines 439-447, google_calendar enabled and authenticate
\* returns a service.
ScraperGcalSync ==
    /\ pc = "merged"
    /\ GcalEnabled(config)
    /\ config.credentials
    /\ \E rejected \in SUBSET Urls :
         LET r == sync_to_google_calendar(mem, RepEmails, rejected)
             all_events == IF r.synced_urls # <<>>
                           THEN mark_gcal_synced(mem, r.synced_urls)
                           ELSE mem
         IN /\ \A u \in Range(r.created) : gcalCount[u] < MaxDeliver
            /\ \A u \in Range(r.created) :
                 ~DuplicateRefused(event_body(mem[IndexOf(mem, u)],
                                              RepEmails[mem[IndexOf(mem, u)]["sales_rep"]]),
                                   gcalCount[u])
            /\ eligibleUrls' = r.eligible
            /\ handed' = r.inserted
            /\ confirmed' = r.created
            /\ gcalCount' = [u \in Urls |->
                               IF u \in Range(r.created) THEN gcalCount[u] + 1
                               ELSE gcalCount[u]]
            /\ mem' = all_events
            /\ store' = IF r.synced_urls # <<>> THEN save_events(all_events, store)
                        ELSE store
    /\ pc' = "synced"
    /\ UNCHANGED <<today, newEvents, lastOp, config, fnVars>>

\* scraper.main, line 442, google_calendar not enabled, or
\* sync_to_google_calendar returns [] at line 232 for want of credentials.
ScraperSkipGcal ==
    /\ pc = "merged"
    /\ ~GcalEnabled(config) \/ ~config.credentials
    /\ pc' = "synced"
    /\ UNCHANGED <<store, today, mem, newEvents, gcalCount, handed, eligibleUrls,
                   confirmed, lastOp, config, fnVars>>

\* The combined calendar-file gate: generate_combined_ics, then
\* mark_calendar_exported and save_events when a file and urls came back.
CombinedGate(next) ==
    LET g == generate_combined_ics(mem)
        flipped == g.filepath /\ g.exported_urls # <<>>
        all_events == IF flipped THEN mark_calendar_exported(mem, g.exported_urls)
                      ELSE mem
    IN /\ eligibleUrls' = g.eligible
       /\ handed' = g.added
       /\ confirmed' = g.added
       /\ mem' = all_events
       /\ store' = IF flipped THEN save_events(all_events, store) ELSE store
       /\ pc' = next

\* scraper.main, lines 461-473, with --export-calendar.
ScraperExport ==
    /\ pc = "synced"
    /\ CombinedGate("exported")
    /\ UNCHANGED <<today, newEvents, gcalCount, lastOp, config, fnVars>>

\* scraper.main returns.
ScraperFinish ==
    /\ pc \in {"synced", "exported"}
    /\ pc' = "idle"
    /\ mem' = <<>>
    /\ newEvents' = <<>>
    /\ handed' = <<>>
    /\ eligibleUrls' = <<>>
    /\ confirmed' = <<>>
    /\ lastOp' = "scrape"
    /\ UNCHANGED <<store, today, gcalCount, config, fnVars>>

\* export_calendar.main, lines 26-29.
ExportLoad ==
    /\ pc = "idle"
    /\ mem' = update_event_statuses(load_existing_events(store), today)
    /\ pc' = "x_loaded"
    /\ UNCHANGED <<store, today, newEvents, gcalCount, handed, eligibleUrls,
                   confirmed, lastOp, config, fnVars>>

\* export_calendar.main, lines 43-54.
ExportGate ==
    /\ pc = "x_loaded"
    /\ CombinedGate("x_done")
    /\ UNCHANGED <<today, newEvents, gcalCount, lastOp, config, fnVars>>

\* export_calendar.main returns.
ExportFinish ==
    /\ pc = "x_done"
    /\ pc' = "idle"
    /\ mem' = <<>>
    /\ handed' = <<>>
    /\ eligibleUrls' = <<>>
    /\ confirmed' = <<>>
    /\ lastOp' = "export"
    /\ UNCHANGED <<store, today, newEvents, gcalCount, config, fnVars>>

Next ==
    \/ Tick
    \/ ScraperConfigError
    \/ ScraperExit
    \/ ScraperLoad
    \/ ScraperMerge
    \/ ScraperGcalSync
    \/ ScraperSkipGcal
    \/ ScraperExport
    \/ ScraperFinish
    \/ ExportLoad
    \/ ExportGate
    \/ ExportFinish

Spec == Init /\ [][Next]_vars

----------------------------------------------------------------------------
(* Properties of the entry points *)

\* The entry of key u in an insertion-ordered dict.
Entry(events, u) == events[CHOOSE i \in 1..Len(events) : events[i]["event_url"] = u]

HasKey(events, u) == \E i \in 1..Len(events) : events[i]["event_url"] = u

\* The step is a batch of the calendar-service gate.
GcalGateStep == pc = "merged" /\ pc' = "synced"

\* The step is a batch of the combined calendar-file gate.
IcsGateStep == (pc = "synced" /\ pc' = "exported") \/ (pc = "x_loaded" /\ pc' = "x_done")

\* C3: each identity is delivered to the calendar service at most once over
\* any sequence of scraper runs, and after a confirmed delivery the record's
\* gcal_synced flag is true in events.csv.
C3_CalendarServiceAtMostOnce ==
    /\ \A u \in Urls : gcalCount[u] <= 1
    /\ pc = "synced" => \A u \in Range(confirmed) : RowFlagSet(store, u, "gcal_synced")

\* C4 as stated: an export run flags every record it selected as eligible,
\* and an export run that directly follows an export run selects no
\* eligible record and returns no exported identity.
C4_ExportTwiceAsStated ==
    pc = "x_done" =>
        /\ \A u \in Range(eligibleUrls) : RowFlagSet(store, u, "calendar_exported")
        /\ lastOp = "export" => (eligibleUrls = <<>> /\ confirmed = <<>>)

\* C4 amended: an export run flags, once each, exactly the selected records
\* whose date and time parse; a selected record with a missing or
\* unparseable date keeps its flag unset; an export run that directly
\* follows an export run exports no identity and selects only such records.
C4_ExportTwiceAmended ==
    pc = "x_done" =>
        /\ \A u \in Range(eligibleUrls) :
              /\ Parses(Entry(mem, u)) <=> u \in Range(confirmed)
              /\ RowFlagSet(store, u, "calendar_exported") <=> u \in Range(confirmed)
        /\ \A i, j \in 1..Len(confirmed) : confirmed[i] = confirmed[j] => i = j
        /\ Range(confirmed) \subseteq Range(eligibleUrls)
        /\ lastOp = "export" =>
              /\ confirmed = <<>>
              /\ \A u \in Range(eligibleUrls) : ~Parses(Entry(mem, u))

\* C4 witness: an export run that directly follows an export run found one
\* record already flagged and one record without date still eligible.
C4_Witness ==
    /\ pc = "x_done"
    /\ lastOp = "export"
    /\ \E u \in Urls : RowFlagSet(store, u, "calendar_exported")
                        /\ HasKey(mem, u) /\ Entry(mem, u)["status"] = "UPCOMING"
    /\ eligibleUrls # <<>>

\* C5: over scraper runs and export runs a sink flag that is true in
\* events.csv stays true in events.csv.
C5_SinkFlagMonotone ==
    [][\A u \in Urls : \A flag \in {"calendar_exported", "gcal_synced"} :
          RowFlagSet(store, u, flag) => RowFlagSet(store', u, flag)]_vars

\* The record of key u may be handed to the sink of flag: UPCOMING and not flagged.
MayHand(events, u, flag) ==
    /\ HasKey(events, u)
    /\ "status" \in DOMAIN Entry(events, u)
    /\ Entry(events, u)["status"] = "UPCOMING"
    /\ ~FlagSet(Entry(events, u), flag)

\* C6: the combined calendar-file gate and the calendar-service gate hand
\* to their sink only records that are UPCOMING and whose flag for that
\* sink is not true when the batch starts.
C6_GateEligibility ==
    [][/\ GcalGateStep => \A u \in Range(handed') : MayHand(mem, u, "gcal_synced")
       /\ IcsGateStep => \A u \in Range(handed') : MayHand(mem, u, "calendar_exported")]_vars

\* C6 witness: a batch of the combined gate handed a record to the sink
\* while the set also held a DONE record that it did not hand over.
C6_Witness ==
    /\ pc \in {"exported", "x_done"}
    /\ handed # <<>>
    /\ \E u \in Urls : /\ HasKey(mem, u)
                       /\ Entry(mem, u)["status"] = "DONE"
                       /\ ~FlagSet(Entry(mem, u), "calendar_exported")
                       /\ u \notin Range(handed)

\* The flag of every record is set after the step exactly when it was set
\* before or the sink confirmed the record in this batch.
FlippedOnlyConfirmed(flag) ==
    /\ Len(mem') = Len(mem)
    /\ \A i \in 1..Len(mem) :
          /\ mem'[i]["event_url"] = mem[i]["event_url"]
          /\ FlagSet(mem'[i], flag)
                <=> (FlagSet(mem[i], flag) \/ mem[i]["event_url"] \in Range(confirmed'))

----------------------------------------------------------------------------
(* reset_calendar.py on an events.csv that carries the gcal_synced column *)

\* load_events: the rows as csv.DictReader gives them, all text.
load_events(file) == IF ~file.exists THEN <<>> ELSE file.rows

\* reset_calendar.save_events: the columns are the keys of the first row.
reset_save_events(events, file) ==
    IF events = <<>> THEN file
    ELSE [exists |-> TRUE, header |-> DOMAIN events[1], rows |-> events]

\* entries: the calendar entries per event_url; notFound: the urls whose
\* search raises or lists no entry with a matching title; failed: the urls
\* whose delete call raises.
find_and_delete_events(events, entries, notFound, failed) ==
    LET synced_events == SelectSeq(events, LAMBDA e :
            /\ lower(Get(e, "gcal_synced", "")) = "true"
            /\ Get(e, "status", "UPCOMING") = "UPCOMING")
        searched == SelectSeq(synced_events, LAMBDA e :
            /\ Get(e, "title", "") # ""
            /\ Get(e, "date", "") # ""
            /\ strptime_date(e["date"]) # 0)
        matched == SelectSeq(searched, LAMBDA e :
            entries[e["event_url"]] > 0 /\ e["event_url"] \notin notFound)
        deleted == SelectSeq(matched, LAMBDA e : e["event_url"] \notin failed)
    IN [synced_events |-> UrlsOf(synced_events),
        delete_called |-> UrlsOf(matched),
        deleted |-> UrlsOf(deleted),
        deleted_count |-> Len(deleted)]

reset_gcal_synced(events) ==
    [i \in 1..Len(events) |->
        IF lower(Get(events[i], "gcal_synced", "")) = "true"
        THEN Put(events[i], "gcal_synced", "")
        ELSE events[i]]

\* A row as an earlier run wrote it: DONE only for a date that has passed.
ResetRows(u, now) ==
    {r \in {Put(LegacyRow(u, d, g), "status", st) :
                d \in {IsoDays[i] : i \in 1..MaxDay} \cup {""},
                g \in {"", "True"},
                st \in {"UPCOMING", "DONE"}} :
        r["status"] = "DONE" =>
            (strptime_date(r["date"]) # 0 /\ strptime_date(r["date"]) < now)}

ResetStores(now) ==
    {[exists |-> TRUE, header |-> FIELDNAMES \cup {"gcal_synced"}, rows |-> rows] :
        rows \in {<<ra>> : ra \in ResetRows("a", now)}
                 \cup {SortByDate(<<ra, rb>>) :
                          ra \in ResetRows("a", now), rb \in ResetRows("b", now)}}

InitReset ==
    /\ today \in 1..(MaxDay + 1)
    /\ store \in {NoFile} \cup ResetStores(today)
    /\ config = GoodConfig
    /\ pc = "idle"
    /\ mem = <<>>
    /\ newEvents = <<>>
    /\ gcalCount = [u \in Urls |-> IF RowFlagSet(store, u, "gcal_synced") THEN 1 ELSE 0]
    /\ handed = <<>>
    /\ eligibleUrls = <<>>
    /\ confirmed = <<>>
    /\ lastOp = "none"
    /\ args = <<>>
    /\ ret = <<>>
    /\ fpc = "off"

\* reset_calendar.main, lines 164-167: there are events.
ResetLoad ==
    /\ pc = "idle"
    /\ load_events(store) # <<>>
    /\ mem' = load_events(store)
    /\ pc' = "r_loaded"
    /\ UNCHANGED <<store, today, newEvents, gcalCount, handed, eligibleUrls,
                   confirmed, lastOp, config, fnVars>>

\* reset_calendar.main, lines 165-167: no events, sys.exit(1).
ResetNoEvents ==
    /\ pc = "idle"
    /\ load_events(store) = <<>>
    /\ pc' = "r_exit"
    /\ UNCHANGED <<store, today, mem, newEvents, gcalCount, handed, eligibleUrls,
                   confirmed, lastOp, config, fnVars>>

\* reset_calendar.main, lines 174-185: the packages are missing or
\* authenticate raises, sys.exit(1).
ResetAuthFails ==
    /\ pc = "r_loaded"
    /\ pc' = "r_exit"
    /\ mem' = <<>>
    /\ UNCHANGED <<store, today, newEvents, gcalCount, handed, eligibleUrls,
                   confirmed, lastOp, config, fnVars>>

\* reset_calendar.main, lines 187-189, without --skip-delete.
ResetDelete ==
    /\ pc = "r_loaded"
    /\ \E notFound \in SUBSET Urls, failed \in SUBSET Urls :
         LET r == find_and_delete_events(mem, gcalCount, notFound, failed)
         IN /\ eligibleUrls' = r.synced_events
            /\ handed' = r.delete_called
            /\ confirmed' = r.deleted
            /\ gcalCount' = [u \in Urls |->
                               IF u \in Range(r.deleted) THEN gcalCount[u] - 1
                               ELSE gcalCount[u]]
    /\ pc' = "r_deleted"
    /\ UNCHANGED <<store, today, mem, newEvents, lastOp, config, fnVars>>

\* reset_calendar.main, line 174, with --skip-delete.
ResetSkipDelete ==
    /\ pc = "r_loaded"
    /\ pc' = "r_skipped"
    /\ UNCHANGED <<store, today, mem, newEvents, gcalCount, handed, eligibleUrls,
                   confirmed, lastOp, config, fnVars>>

\* reset_calendar.main, lines 193-194.
ResetSave ==
    /\ pc \in {"r_deleted", "r_skipped"}
    /\ mem' = reset_gcal_synced(mem)
    /\ store' = reset_save_events(reset_gcal_synced(mem), store)
    /\ pc' = "r_done"
    /\ UNCHANGED <<today, newEvents, gcalCount, handed, eligibleUrls, confirmed,
                   lastOp, config, fnVars>>

NextReset ==
    \/ ResetLoad
    \/ ResetNoEvents
    \/ ResetAuthFails
    \/ ResetDelete
    \/ ResetSkipDelete
    \/ ResetSave

SpecReset == InitReset /\ [][NextReset]_vars

\* C11: in every entry point, once the store is loaded and before a step
\* selects records by status, the status of every loaded record is the one
\* its date and the current day give.
C11_StatusRecomputedOnLoad ==
    pc \in {"loaded", "x_loaded", "r_loaded"} =>
        \A i \in 1..Len(mem) :
            Get(mem[i], "status", "") = classify(mem[i], today)["status"]

\* The step is the reset utility clearing flags and saving.
ResetStep == pc \in {"r_deleted", "r_skipped"} /\ pc' = "r_done"

\* C12: the reset utility clears gcal_synced of every record that has the
\* flag true and status UPCOMING, and leaves the flag of every DONE record
\* as it was.
C12_ResetScope ==
    [][ResetStep =>
        \A i \in 1..Len(mem) :
            /\ (FlagSet(mem[i], "gcal_synced") /\ mem[i]["status"] = "UPCOMING")
                  => ~FlagSet(mem'[i], "gcal_synced")
            /\ mem[i]["status"] = "DONE"
                  => mem'[i]["gcal_synced"] = mem[i]["gcal_synced"]]_vars

\* C13: without --skip-delete the reset utility clears the flag only of
\* records whose calendar entry was deleted, a record whose entry was not
\* found or whose delete call failed keeps its flag; with --skip-delete the
\* flag is cleared and no delete call was made.
C13_ResetAfterConfirmedRemoval ==
    [][ResetStep =>
        /\ pc = "r_deleted" =>
             \A i \in 1..Len(mem) :
                 (FlagSet(mem[i], "gcal_synced") /\ ~FlagSet(mem'[i], "gcal_synced"))
                     => mem[i]["event_url"] \in Range(confirmed)
        /\ pc = "r_skipped" =>
             /\ handed = <<>>
             /\ \A i \in 1..Len(mem) : ~FlagSet(mem'[i], "gcal_synced")]_vars

----------------------------------------------------------------------------
(* assign_rep_by_territory as a function under test *)

\* Scraped events over the cities and is_online values that decide the
\* branch; an event of the pool may have no city key.
TerritoryPool ==
    {[title |-> "Kafka night", event_url |-> "a", is_online |-> o,
      sales_rep |-> "Rep2", city |-> c] :
        o \in BOOLEAN, c \in {"Austin", " AUSTIN ", "Dallas", "", " "}}
    \cup {[title |-> "Flink day", event_url |-> "b", is_online |-> FALSE,
           sales_rep |-> r] : r \in {"Rep1", "Rep2"}}

\* config.json "territories": absent or empty, a key, a key written with
\* blanks around it.
TerritoryMaps ==
    {<<>>, Territories, ("Austin" :> "Rep1") @@ ("Dallas" :> "Rep3"),
     (" AUSTIN " :> "Rep1")}

InitTerritory ==
    /\ args \in [events : SeqsUpTo(TerritoryPool, MaxBatch), territories : TerritoryMaps]
    /\ ret = <<>>
    /\ fpc = "call"
    /\ MainIdle

CallTerritory ==
    /\ fpc = "call"
    /\ ret' = assign_rep_by_territory(args.events, args.territories)
    /\ fpc' = "return"
    /\ UNCHANGED <<args, mainVars>>

NextTerritory == CallTerritory

SpecTerritory == InitTerritory /\ [][NextTerritory]_vars

\* The keys of a territory mapping that the city of e matches: e is not
\* online and its city, trimmed and case-folded, is the case-folded key.
MatchingKeys(e, territories) ==
    {k \in DOMAIN territories :
        /\ ~Get(e, "is_online", FALSE)
        /\ strip(Get(e, "city", "")) # ""
        /\ lower(strip(Get(e, "city", ""))) = lower(k)}

\* C14: assign_rep_by_territory returns the records in the same order; a
\* record that is not online and whose trimmed, case-folded city is a
\* case-folded key has sales_rep equal to the mapped value and every
\* other field as before; every other record is returned as it was.
C14_TerritoryOverride ==
    fpc = "return" =>
        /\ Len(ret) = Len(args.events)
        /\ \A i \in 1..Len(ret) :
             LET e == args.events[i]
                 keys == MatchingKeys(e, args.territories)
             IN IF keys = {} THEN ret[i] = e
                ELSE /\ DOMAIN ret[i] = DOMAIN e \cup {"sales_rep"}
                     /\ \E k \in keys : ret[i]["sales_rep"] = args.territories[k]
                     /\ \A f \in DOMAIN e \ {"sales_rep"} : ret[i][f] = e[f]

\* C14 witness: a record whose city is written with blanks and capitals
\* was given the mapped rep, and an online record of the same city was not.
C14_Witness ==
    /\ fpc = "return"
    /\ Len(ret) = 2
    /\ args.territories = Territories
    /\ Get(args.events[1], "city", "") = " AUSTIN "
    /\ ~args.events[1]["is_online"]
    /\ args.events[1]["sales_rep"] = "Rep2"
    /\ ret[1]["sales_rep"] = "Rep1"
    /\ Get(args.events[2], "city", "") = "Austin"
    /\ args.events[2]["is_online"]
    /\ ret[2]["sales_rep"] = "Rep2"

----------------------------------------------------------------------------
(* scraper.main, lines 361-425, as a function of events.csv and the batch *)

\* Variant in which the scraped record replaces the one of the file.
merge_scraped_observed_wins(file, batch, now) ==
    LET existing_events == update_event_statuses(load_existing_events(file), now)
        all_scraped_events ==
            assign_rep_by_territory(deduplicate_events(filter_upcoming(batch, now)),
                                    Territories)
    IN merge_events_overwrite(existing_events, all_scraped_events)

\* load and classify, filter and deduplicate the batch, assign territories,
\* merge.
merge_scraped(file, batch, now) ==
    LET existing_events == update_event_statuses(load_existing_events(file), now)
        all_scraped_events ==
            assign_rep_by_territory(deduplicate_events(filter_upcoming(batch, now)),
                                    Territories)
    IN merge_events(existing_events, all_scraped_events)

\* Files an earlier run saved: event a under either rep, alone or with b.
KnownEvent(u, r) ==
    Put(Put(Put(Scraped(u, IsoDays[1]), "sales_rep", r), "status", "UPCOMING"),
        "calendar_exported", "")

ScrapeStores ==
    {NoFile}
    \cup {save_events(<<KnownEvent("a", r)>>, NoFile) : r \in {"Rep1", "Rep2"}}
    \cup {save_events(<<KnownEvent("a", r), KnownEvent("b", "Rep2")>>, NoFile) :
             r \in {"Rep1", "Rep2"}}

InitScrape ==
    /\ args \in [file : ScrapeStores, batch : SeqsUpTo(ScrapePool, MaxBatch)]
    /\ ret = <<>>
    /\ fpc = "call"
    /\ MainIdle

CallScrape ==
    /\ fpc = "call"
    /\ ret' = merge_scraped(args.file, args.batch, 1)
    /\ fpc' = "return"
    /\ UNCHANGED <<args, mainVars>>

NextScrape == CallScrape

SpecScrape == InitScrape /\ [][NextScrape]_vars

\* C15: after the merge of a scraper run every record that events.csv
\* held before the run has the sales_rep it had in the file, whatever was
\* scraped; a record added by the run has the rep of the territory mapping
\* when its city matches a key.
C15_TerritoryScope ==
    fpc = "return" =>
        LET before == load_existing_events(args.file)
        IN /\ \A i \in 1..Len(before) :
                 /\ HasKey(ret.all, before[i]["event_url"])
                 /\ Entry(ret.all, before[i]["event_url"])["sales_rep"]
                        = before[i]["sales_rep"]
           /\ \A j \in 1..Len(ret.added) :
                 /\ ~HasKey(before, ret.added[j]["event_url"])
                 /\ MatchingKeys(ret.added[j], Territories) # {}
                        => ret.added[j]["sales_rep"] = "Rep1"

\* C15 witness: event a was in the file under Rep2, the batch observed a in
\* Austin, which the mapping gives to Rep1, and a is still under Rep2.
C15_Witness ==
    /\ fpc = "return"
    /\ HasKey(load_existing_events(args.file), "a")
    /\ Entry(load_existing_events(args.file), "a")["sales_rep"] = "Rep2"
    /\ \E i \in 1..Len(args.batch) :
         /\ args.batch[i]["event_url"] = "a"
         /\ args.batch[i]["city"] = "Austin"
         /\ args.batch[i]["date"] = IsoDays[1]
    /\ Entry(ret.all, "a")["sales_rep"] = "Rep2"
    /\ ret.added = <<>>

----------------------------------------------------------------------------
(* Properties of events.csv over scraper runs and export runs *)

\* The identities in a file: the non-empty event_url values of its rows.
StoreIds(file) ==
    {Get(file.rows[i], "event_url", "") : i \in 1..Len(file.rows)} \ {""}

\* C16: no step of a scraper run or of an export run removes an identity
\* from events.csv: every event_url the file holds before a step is in the
\* file after it.
C16_NoDeletion == [][StoreIds(store) \subseteq StoreIds(store')]_vars

\* C16 witness: a scraper run rewrote a file that holds both identities, one
\* of them DONE since the date changed.
C16_Witness ==
    /\ pc = "merged"
    /\ today = 2
    /\ StoreIds(store) = {"a", "b"}
    /\ \E i \in 1..Len(store.rows) :
         /\ store.rows[i]["event_url"] = "a"
         /\ store.rows[i]["status"] = "DONE"
    /\ UrlsOf(newEvents) = <<"b">>

\* C17: a record that is delivered again does not make a second entry: the
\* calendar service holds at most one entry per identity, every insert
\* request of the calendar-service gate names an identifier derived from
\* event_url, and every entry of the combined calendar file has the uid
\* derived from event_url.
C17_SinkIdempotencyKey ==
    /\ \A u \in Urls : gcalCount[u] <= 1
    /\ pc = "synced" =>
         \A u \in Range(handed) :
             {"id", "iCalUID"}
                 \cap DOMAIN event_body(Entry(mem, u), RepEmails[Entry(mem, u)["sales_rep"]])
                 # {}
    /\ pc \in {"exported", "x_done"} =>
         \A u \in Range(handed) :
             ical_event(Entry(mem, u))["uid"] = <<md5(u), "@meetup-scraper">>

----------------------------------------------------------------------------
(* load_existing_events and the start of scraper.main on any events.csv *)

\* Variant in which a missing file makes the call raise.
LoadOutcome_missing_raises(file) ==
    [raised |-> ~file.exists, events |-> load_existing_events(file)]

\* The call load_existing_events(file): it returns the events and has no
\* path that raises on a file that is missing or lacks urls or columns.
LoadOutcome(file) ==
    [raised |-> FALSE, events |-> load_existing_events(file)]

\* The file without column k.
DropColumn(file, k) ==
    [exists |-> TRUE, header |-> file.header \ {k},
     rows |-> [i \in 1..Len(file.rows) |->
                  [x \in DOMAIN file.rows[i] \ {k} |-> file.rows[i][x]]]]

\* The file with the event_url of its first row blank.
BlankUrl(file) ==
    [file EXCEPT !.rows = [@ EXCEPT ![1] = Put(@, "event_url", "")]]

\* The file exists and a row of it has no event_url.
Malformed(file) ==
    /\ file.exists
    /\ \/ "event_url" \notin file.header
       \/ \E i \in 1..Len(file.rows) : Get(file.rows[i], "event_url", "") = ""

LoadStores ==
    ScrapeStores
    \cup {DropColumn(f, "event_url") : f \in ScrapeStores \ {NoFile}}
    \cup {BlankUrl(f) : f \in ScrapeStores \ {NoFile}}

InitLoad ==
    /\ args \in [file : LoadStores, batch : SeqsUpTo(ScrapePool, MaxBatch)]
    /\ ret = <<>>
    /\ fpc = "call"
    /\ MainIdle

\* scraper.main, line 361.
CallLoad ==
    /\ fpc = "call"
    /\ ret' = [raised |-> LoadOutcome(args.file).raised,
               events |-> LoadOutcome(args.file).events,
               added |-> <<>>,
               file |-> args.file]
    /\ fpc' = "loaded"
    /\ UNCHANGED <<args, mainVars>>

\* scraper.main, lines 362-431, when the load returned.
CallMergeSave ==
    /\ fpc = "loaded"
    /\ ~ret.raised
    /\ LET existing_events == update_event_statuses(ret.events, 1)
           all_scraped_events ==
               assign_rep_by_territory(deduplicate_events(filter_upcoming(args.batch, 1)),
                                       Territories)
           m == merge_events(existing_events, all_scraped_events)
       IN ret' = [raised |-> FALSE, events |-> m.all, added |-> m.added,
                  file |-> save_events(m.all, args.file)]
    /\ fpc' = "return"
    /\ UNCHANGED <<args, mainVars>>

NextLoad == CallLoad \/ CallMergeSave

SpecLoad == InitLoad /\ [][NextLoad]_vars

\* C18: when events.csv exists and is malformed, the load raises, so the
\* run does not go on and the file is never replaced by one that lacks rows.
C18_MalformedStoreFatal ==
    (fpc \in {"loaded", "return"} /\ Malformed(args.file)) =>
        /\ ret.raised
        /\ ret.file = args.file

\* C19: when events.csv does not exist, load_existing_events returns no
\* event and does not raise, and the run goes on: every identity of the
\* batch that passes the date filter is among the newly added events, and
\* the events of the run are the newly added ones.
C19_MissingStoreEmpty ==
    (fpc \in {"loaded", "return"} /\ ~args.file.exists) =>
        /\ ~ret.raised
        /\ fpc = "loaded" => ret.events = <<>>
        /\ fpc = "return" =>
             /\ Identities(ret.added) = Identities(filter_upcoming(args.batch, 1))
             /\ ret.events = ret.added

\* C19 witness: no file, a batch that observed both identities, and both
\* were added.
C19_Witness ==
    /\ fpc = "return"
    /\ ~args.file.exists
    /\ Identities(args.batch) = {"a", "b"}
    /\ Identities(ret.added) = {"a", "b"}

----------------------------------------------------------------------------
(* Properties of the configuration check *)

\* config.json is missing or lacks the API key or the groups.
BadConfig ==
    \/ ~config.exists
    \/ Get(config.json, "browserless_api_key", "") = ""
    \/ Get(config.json, "groups", <<>>) = <<>>

\* C20: with config.json missing or without API key or groups, a scraper
\* run is never at a point after the load of events.csv, and the step that
\* it takes ends in the error exit with events.csv, the loaded and new
\* events, the calendar service and the gate records as they were.
C20_ConfigErrorBeforeSideEffect ==
    /\ [](BadConfig => pc \notin {"loaded", "merged", "synced", "exported"})
    /\ [][(BadConfig /\ pc = "idle" /\ pc' \notin {"idle", "x_loaded"}) =>
            /\ pc' = "config_error"
            /\ UNCHANGED <<store, mem, newEvents, gcalCount, handed, eligibleUrls,
                           confirmed>>]_vars

\* C20 witness: a scraper run ended in the error exit on a config.json
\* that exists and has no groups, with an events.csv on disk.
C20_Witness ==
    /\ pc = "config_error"
    /\ config.exists
    /\ Get(config.json, "browserless_api_key", "") # ""
    /\ store.exists
    /\ mem = <<>>

----------------------------------------------------------------------------
(* scraper.main, lines 386-431: the loop over the groups *)

\* What fetch_page and parse_events do for one group: raised when either
\* raises, events what parse_events had built (returned when not raised).
GroupResults ==
    {[raised |-> r, events |-> ev] : r \in BOOLEAN, ev \in SeqsUpTo(ScrapePool, 1)}

\* Variant in which the first group that raises ends the loop.
RECURSIVE ScrapeLoopStop(_, _, _, _)
ScrapeLoopStop(results, i, now, all_scraped_events) ==
    IF i > Len(results) THEN all_scraped_events
    ELSE IF results[i].raised THEN all_scraped_events
    ELSE ScrapeLoopStop(results, i + 1, now,
                        all_scraped_events \o filter_upcoming(results[i].events, now))

scrape_groups_stop(results, now) == ScrapeLoopStop(results, 1, now, <<>>)

\* for group in groups: try ... except Exception: continue
RECURSIVE ScrapeLoop(_, _, _, _)
ScrapeLoop(results, i, now, all_scraped_events) ==
    IF i > Len(results) THEN all_scraped_events
    ELSE IF results[i].raised
    THEN ScrapeLoop(results, i + 1, now, all_scraped_events)
    ELSE ScrapeLoop(results, i + 1, now,
                    all_scraped_events \o filter_upcoming(results[i].events, now))

scrape_groups(results, now) == ScrapeLoop(results, 1, now, <<>>)

InitGroups ==
    /\ args \in [results : SeqsUpTo(GroupResults, MaxGroups), file : ScrapeStores]
    /\ ret = <<>>
    /\ fpc = "call"
    /\ MainIdle

\* scraper.main, lines 386-409.
CallGroups ==
    /\ fpc = "call"
    /\ ret' = [scraped |-> scrape_groups(args.results, 1), all |-> <<>>,
               added |-> <<>>, file |-> args.file]
    /\ fpc' = "scraped"
    /\ UNCHANGED <<args, mainVars>>

\* scraper.main, lines 411-431.
CallGroupsMerge ==
    /\ fpc = "scraped"
    /\ LET existing_events == update_event_statuses(load_existing_events(args.file), 1)
           all_scraped_events ==
               assign_rep_by_territory(deduplicate_events(ret.scraped), Territories)
           m == merge_events(existing_events, all_scraped_events)
       IN ret' = [scraped |-> ret.scraped, all |-> m.all, added |-> m.added,
                  file |-> save_events(m.all, args.file)]
    /\ fpc' = "return"
    /\ UNCHANGED <<args, mainVars>>

NextGroups == CallGroups \/ CallGroupsMerge

SpecGroups == InitGroups /\ [][NextGroups]_vars

\* The upcoming events of the groups from..Len(results) that did not raise.
RECURSIVE Succeeded(_, _)
Succeeded(results, from) ==
    IF from > Len(results) THEN <<>>
    ELSE (IF results[from].raised THEN <<>>
          ELSE filter_upcoming(results[from].events, 1))
         \o Succeeded(results, from + 1)

\* C21: the events the group loop hands on are the upcoming events of the
\* groups that did not raise, in group order, with nothing from a group
\* that raised; and the merged set and the saved file hold every identity
\* among them.
C21_PerSourceRecovery ==
    /\ fpc \in {"scraped", "return"} => ret.scraped = Succeeded(args.results, 1)
    /\ fpc = "return" =>
          /\ Identities(Succeeded(args.results, 1)) \subseteq Identities(ret.all)
          /\ Identities(ret.all) \subseteq StoreIds(ret.file)

\* C21 witness: the first group raised after an event had been parsed, the
\* second returned event b, the file did not exist, and b alone was added
\* and saved.
C21_Witness ==
    /\ fpc = "return"
    /\ Len(args.results) = 2
    /\ args.results[1].raised
    /\ UrlsOf(args.results[1].events) = <<"a">>
    /\ ~args.results[2].raised
    /\ ~args.file.exists
    /\ UrlsOf(ret.added) = <<"b">>
    /\ StoreIds(ret.file) = {"b"}

----------------------------------------------------------------------------
(* Properties of the order of events.csv *)

\* The date text is a valid date.
ValidDate(row) == strptime_date(Get(row, "date", "")) # 0

\* C22: events.csv is in ascending date order, and every row whose date is
\* missing, empty or unparseable comes after all rows with a valid date.
C22_PersistenceOrder ==
    \A i, j \in 1..Len(store.rows) :
        i < j =>
            /\ (ValidDate(store.rows[i]) /\ ValidDate(store.rows[j]))
                  => strptime_date(store.rows[i]["date"])
                         <= strptime_date(store.rows[j]["date"])
            /\ ValidDate(store.rows[j]) => ValidDate(store.rows[i])

\* The sink flags of a record.
SinkFlags == {"gcal_synced", "calendar_exported"}

\* C23: once the gates of a scraper run are through, events.csv holds for
\* every record of the in-memory set the same sink flags as the in-memory
\* set.
C23_StoreMatchesMemory ==
    pc \in {"synced", "exported"} =>
        \A i \in 1..Len(mem) : \A flag \in SinkFlags :
            FlagSet(mem[i], flag) <=> RowFlagSet(store, mem[i]["event_url"], flag)

----------------------------------------------------------------------------
(* sync_to_google_calendar with every answer events().insert can give *)

\* What events().insert(...).execute() does for an event_url: it returns
\* an entry, raises HttpError, or raises something else (a transport
\* error such as a timeout).
InsertAnswers == {"ok", "HttpError", "Timeout"}

\* for url, event in to_sync: the record without address is skipped,
\* create_calendar_event returns None without a call when the date does not
\* parse and when insert raises HttpError, and any other exception of
\* insert leaves create_calendar_event and sync_to_google_calendar.
RECURSIVE SyncLoop(_, _, _, _, _)
SyncLoop(to_sync, i, rep_emails, answer, acc) ==
    IF i > Len(to_sync) THEN acc
    ELSE LET e == to_sync[i]
             url == e["event_url"]
         IN IF Get(e, "sales_rep", "") \notin DOMAIN rep_emails
            THEN SyncLoop(to_sync, i + 1, rep_emails, answer, acc)
            ELSE IF ~Parses(e)
            THEN SyncLoop(to_sync, i + 1, rep_emails, answer, acc)
            ELSE IF answer[url] = "Timeout"
            THEN [acc EXCEPT !.raised = TRUE, !.inserted = Append(@, url),
                             !.synced_urls = <<>>]
            ELSE IF answer[url] = "HttpError"
            THEN SyncLoop(to_sync, i + 1, rep_emails, answer,
                     [acc EXCEPT !.inserted = Append(@, url)])
            ELSE SyncLoop(to_sync, i + 1, rep_emails, answer,
                     [acc EXCEPT !.inserted = Append(@, url),
                                 !.created = Append(@, url),
                                 !.synced_urls = Append(@, url)])

\* raised: an exception left the call, nothing is returned; otherwise the
\* fields are those of sync_to_google_calendar.
SyncOutcome(events, rep_emails, answer) ==
    LET to_sync == SelectSeq(events, LAMBDA e : Selected(e, "gcal_synced"))
    IN SyncLoop(to_sync, 1, rep_emails, answer,
           [raised |-> FALSE, eligible |-> UrlsOf(to_sync), inserted |-> <<>>,
            created |-> <<>>, synced_urls |-> <<>>])

\* In-memory records of event u after load and merge.
SyncEvents(u) ==
    {Put(KnownEvent(u, r), "date", d) : r \in {"Rep1", "Rep2"}, d \in {IsoDays[1], ""}}
    \cup {Put(KnownEvent(u, "Rep1"), "gcal_synced", "True")}

SyncSets ==
    {<<ea>> : ea \in SyncEvents("a")}
    \cup {<<ea, eb>> : ea \in SyncEvents("a"), eb \in SyncEvents("b")}
    \cup {<<eb, ea>> : ea \in SyncEvents("a"), eb \in SyncEvents("b")}

InitSync ==
    /\ args \in [events : SyncSets, answer : [Urls -> InsertAnswers]]
    /\ ret = <<>>
    /\ fpc = "call"
    /\ MainIdle

CallSync ==
    /\ fpc = "call"
    /\ ret' = SyncOutcome(args.events, RepEmails, args.answer)
    /\ fpc' = "return"
    /\ UNCHANGED <<args, mainVars>>

NextSync == CallSync

SpecSync == InitSync /\ [][NextSync]_vars

\* The record can be delivered: its rep has an address and its date parses.
Deliverable(e) == Get(e, "sales_rep", "") \in DOMAIN RepEmails /\ Parses(e)

\* C25: in a batch of the calendar-service gate every eligible record that
\* can be delivered is handed to insert, whatever happened to the records
\* before it, and a record whose insert did not succeed is not reported as
\* synced.
C25_SinkErrorKeepsBatch ==
    fpc = "return" =>
        /\ \A i \in 1..Len(args.events) :
             (Selected(args.events[i], "gcal_synced") /\ Deliverable(args.events[i]))
                 => args.events[i]["event_url"] \in Range(ret.inserted)
        /\ \A u \in Range(ret.synced_urls) : args.answer[u] = "ok"

----------------------------------------------------------------------------
(* Properties of a gate that is switched off *)

\* config.json does not enable the calendar service, or the credential for
\* it is missing.
GcalOff ==
    \/ "google_calendar" \notin DOMAIN config.json
    \/ "enabled" \notin DOMAIN config.json["google_calendar"]
    \/ ~config.json["google_calendar"]["enabled"]
    \/ ~config.credentials

\* C30: in a scraper run whose configuration switches the calendar service
\* off, the step past that gate makes no insert call and changes no
\* record and no file, and the run goes on to the next gate; in a run
\* without --export-calendar the step that ends the run changes no file.
C30_DisabledGateSkipped ==
    [][/\ (pc = "merged" /\ pc' # "merged" /\ GcalOff) =>
            /\ pc' = "synced"
            /\ handed' = <<>>
            /\ UNCHANGED <<gcalCount, mem, store>>
       /\ (pc = "synced" /\ pc' = "idle") => UNCHANGED <<gcalCount, store>>]_vars

\* C30 witness: with the calendar service not enabled a run added event a,
\* which a rep with an address owns, made no insert call, and its combined
\* calendar-file gate delivered a.
C30_Witness ==
    /\ pc = "exported"
    /\ "google_calendar" \notin DOMAIN config.json
    /\ UrlsOf(newEvents) = <<"a">>
    /\ Deliverable(Entry(mem, "a"))
    /\ gcalCount["a"] = 0
    /\ ~FlagSet(Entry(mem, "a"), "gcal_synced")
    /\ handed = <<"a">>
    /\ RowFlagSet(store, "a", "calendar_exported")

----------------------------------------------------------------------------
(* Runs that end between a delivery and the save of its flag *)

\* Variant in which the flags are saved before the run ends.
ExportInterrupted_saved ==
    /\ pc \in {"synced", "x_loaded"}
    /\ LET g == generate_combined_ics(mem)
       IN /\ g.filepath
          /\ eligibleUrls' = g.eligible
          /\ handed' = g.added
          /\ confirmed' = g.added
          /\ store' = save_events(mark_calendar_exported(mem, g.exported_urls), store)
    /\ pc' = "interrupted"
    /\ lastOp' = "calendar_exported"
    /\ UNCHANGED <<today, mem, newEvents, gcalCount, config, fnVars>>

\* scraper.main, lines 466-471, and export_calendar.main, lines 43-50: the
\* process ends after generate_combined_ics wrote the file and before
\* save_events.
ExportInterrupted ==
    /\ pc \in {"synced", "x_loaded"}
    /\ LET g == generate_combined_ics(mem)
       IN /\ g.filepath
          /\ eligibleUrls' = g.eligible
          /\ handed' = g.added
          /\ confirmed' = g.added
    /\ pc' = "interrupted"
    /\ lastOp' = "calendar_exported"
    /\ UNCHANGED <<store, today, mem, newEvents, gcalCount, config, fnVars>>

\* scraper.main, lines 444-447: the process ends after an insert succeeded
\* and before save_events, by an exception that leaves
\* sync_to_google_calendar or by a signal.
ScraperGcalInterrupted ==
    /\ pc = "merged"
    /\ GcalEnabled(config)
    /\ config.credentials
    /\ \E answer \in [Urls -> InsertAnswers] :
         LET r == SyncOutcome(mem, RepEmails, answer)
         IN /\ r.created # <<>>
            /\ \A u \in Range(r.created) : gcalCount[u] < MaxDeliver
            /\ eligibleUrls' = r.eligible
            /\ handed' = r.inserted
            /\ confirmed' = r.created
            /\ gcalCount' = [u \in Urls |->
                               IF u \in Range(r.created) THEN gcalCount[u] + 1
                               ELSE gcalCount[u]]
    /\ pc' = "interrupted"
    /\ lastOp' = "gcal_synced"
    /\ UNCHANGED <<store, today, mem, newEvents, config, fnVars>>

\* The next invocation starts from the files.
Restart ==
    /\ pc = "interrupted"
    /\ pc' = "idle"
    /\ mem' = <<>>
    /\ newEvents' = <<>>
    /\ handed' = <<>>
    /\ eligibleUrls' = <<>>
    /\ confirmed' = <<>>
    /\ lastOp' = "interrupted"
    /\ UNCHANGED <<store, today, gcalCount, config, fnVars>>

NextInterrupt ==
    \/ Next
    \/ ScraperGcalInterrupted
    \/ ExportInterrupted
    \/ Restart

SpecInterrupt == Init /\ [][NextInterrupt]_vars

\* What a run started on day d has in memory after load and classification.
LoadedOn(d) == update_event_statuses(load_existing_events(store), d)

\* C24: when a run has ended after a sink confirmed a record and before the
\* save, the record's flag of that sink is not true in events.csv, and a
\* run started on that or a later day on which the record is still
\* UPCOMING has the record among the eligible ones of that sink's gate.
C24_InterruptedRunReattempted ==
    pc = "interrupted" =>
        \A u \in Range(confirmed) :
            /\ ~RowFlagSet(store, u, lastOp)
            /\ \A d \in today..(MaxDay + 1) :
                 /\ HasKey(LoadedOn(d), u)
                 /\ Entry(LoadedOn(d), u)["status"] = "UPCOMING" =>
                      /\ lastOp = "gcal_synced" =>
                           u \in Range(sync_to_google_calendar(LoadedOn(d), RepEmails, {}).eligible)
                      /\ lastOp = "calendar_exported" =>
                           u \in Range(generate_combined_ics(LoadedOn(d)).eligible)

\* C24 witness: the insert for event a succeeded, the run ended before the
\* save, and the gate of the next scraper run has selected a and delivered
\* it again.
C24_Witness ==
    /\ pc = "synced"
    /\ lastOp = "interrupted"
    /\ "a" \in Range(eligibleUrls)
    /\ confirmed = <<"a">>
    /\ gcalCount["a"] = 2


----------------------------------------------------------------------------
(* Order of the newly-added list *)

\* The entries of seq whose event_url is not a key of existing, in seq order.
RECURSIVE UnknownOf(_, _)
UnknownOf(seq, existing) ==
    IF seq = <<>> THEN <<>>
    ELSE LET rest == UnknownOf(Tail(seq), existing)
         IN IF IndexOf(existing, Get(Head(seq), "event_url", "")) = 0
            THEN <<Head(seq)>> \o rest
            ELSE rest

\* C28: the newly-added list returned by merge_events holds the records of
\* the deduplicated observed sequence whose identity was not persisted, each
\* with status UPCOMING, in the same relative order as in that sequence.
C28_NewlyAddedOrder ==
    fpc = "return" =>
        LET expected == UnknownOf(deduplicate_events(args.new), args.existing)
        IN /\ Len(ret.added) = Len(expected)
           /\ \A i \in 1..Len(expected) :
                  ret.added[i] = Put(expected[i], "status", "UPCOMING")

\* C28 witness: the observed sequence was already deduplicated and held b
\* before a, neither persisted, and the merge returned both.
C28_Witness ==
    /\ fpc = "return"
    /\ args.existing = <<>>
    /\ args.new = deduplicate_events(args.new)
    /\ UrlsOf(args.new) = <<"b", "a">>
    /\ UrlsOf(ret.added) = <<"b", "a">>


----------------------------------------------------------------------------
(* Records whose sales rep has no address *)

\* The persisted row of u names a sales rep without an entry in rep_emails.
NoAddress(u) ==
    /\ HasKey(store.rows, u)
    /\ Get(Entry(store.rows, u), "sales_rep", "") \notin DOMAIN RepEmails

\* C29: a record whose sales rep has no address in rep_emails is never
\* handed to the calendar service: after the calendar-service gate of a run
\* it is not among the inserted events, no entry was ever made for it, its
\* gcal_synced flag is unset in memory and in events.csv, and a run started
\* on any later day on which it is still UPCOMING selects it again.
C29_NoAddressNoSync ==
    \A u \in Urls :
        NoAddress(u) =>
            /\ gcalCount[u] = 0
            /\ ~RowFlagSet(store, u, "gcal_synced")
            /\ HasKey(mem, u) => ~FlagSet(Entry(mem, u), "gcal_synced")
            /\ (pc = "synced" /\ GcalEnabled(config) /\ config.credentials) =>
                   /\ u \notin Range(handed)
                   /\ u \notin Range(confirmed)
            /\ \A d \in today..(MaxDay + 1) :
                   (/\ HasKey(LoadedOn(d), u)
                    /\ Entry(LoadedOn(d), u)["status"] = "UPCOMING") =>
                       u \in Range(sync_to_google_calendar(LoadedOn(d), RepEmails, {}).eligible)

\* C29 witness: the calendar-service gate selected a and b, delivered a, and
\* skipped b, whose sales rep has no address.
C29_Witness ==
    /\ pc = "synced"
    /\ GcalEnabled(config)
    /\ config.credentials
    /\ NoAddress("b")
    /\ Range(eligibleUrls) = {"a", "b"}
    /\ confirmed = <<"a">>
    /\ handed = <<"a">>


----------------------------------------------------------------------------
(* Order of the sink calls *)

\* C27: within the batch of one gate the sink calls are made in ascending
\* date order: of two records handed to the sink, the one handed first has
\* the earlier or the same date, also when the record added by this run's
\* merge is dated before a record that was already persisted.
C27_SinkOrderByDate ==
    pc \in {"synced", "exported", "x_done"} =>
        \A i, j \in 1..Len(handed) :
            i < j => strptime_date(Entry(mem, handed[i])["date"])
                         <= strptime_date(Entry(mem, handed[j])["date"])


----------------------------------------------------------------------------
(* Two runs on one events.csv *)

\* Two processes started by the operator on the same directory.  In this
\* specification pc, mem and newEvents hold one entry for each process; no
\* step takes a lock, so the steps of the two interleave freely.
Procs == {1, 2}

\* The name under which lastOp records the process that wrote events.csv last.
Saver == <<"run1", "run2">>

InitConcurrent ==
    /\ store \in {NoFile} \cup LegacyStores
    /\ config = GoodConfig
    /\ today = 1
    /\ pc = [p \in Procs |-> "idle"]
    /\ mem = [p \in Procs |-> <<>>]
    /\ newEvents = [p \in Procs |-> <<>>]
    /\ gcalCount = [u \in Urls |-> IF RowFlagSet(store, u, "gcal_synced") THEN 1 ELSE 0]
    /\ handed = <<>>
    /\ eligibleUrls = <<>>
    /\ confirmed = <<>>
    /\ lastOp = "none"
    /\ args = <<>>
    /\ ret = <<>>
    /\ fpc = "off"

\* scraper.main of process p, lines 349-369.
ConcScraperLoad(p) ==
    /\ pc[p] = "idle"
    /\ load_config(config).raised = ""
    /\ mem' = [mem EXCEPT ![p] = update_event_statuses(load_existing_events(store), today)]
    /\ pc' = [pc EXCEPT ![p] = "loaded"]
    /\ UNCHANGED <<store, today, newEvents, gcalCount, handed, eligibleUrls,
                   confirmed, lastOp, config, fnVars>>

\* scraper.main of process p, lines 386-431.
ConcScraperMerge(p) ==
    /\ pc[p] = "loaded"
    /\ \E deduplicated \in UpcomingBatches[today] :
         LET all_scraped_events == assign_rep_by_territory(deduplicated, Territories)
             m == merge_events(mem[p], all_scraped_events)
         IN /\ mem' = [mem EXCEPT ![p] = m.all]
            /\ newEvents' = [newEvents EXCEPT ![p] = m.added]
            /\ store' = save_events(m.all, store)
            /\ lastOp' = IF m.all = <<>> THEN lastOp ELSE Saver[p]
    /\ pc' = [pc EXCEPT ![p] = "merged"]
    /\ UNCHANGED <<today, gcalCount, handed, eligibleUrls, confirmed, config, fnVars>>

\* scraper.main of process p, lines 439-447.
ConcScraperGcalSync(p) ==
    /\ pc[p] = "merged"
    /\ GcalEnabled(config)
    /\ config.credentials
    /\ \E rejected \in SUBSET Urls :
         LET r == sync_to_google_calendar(mem[p], RepEmails, rejected)
             all_events == IF r.synced_urls # <<>>
                           THEN mark_gcal_synced(mem[p], r.synced_urls)
                           ELSE mem[p]
         IN /\ \A u \in Range(r.created) : gcalCount[u] < MaxDeliver
            /\ \A u \in Range(r.created) :
                 ~DuplicateRefused(event_body(mem[p][IndexOf(mem[p], u)],
                                              RepEmails[mem[p][IndexOf(mem[p], u)]["sales_rep"]]),
                                   gcalCount[u])
            /\ gcalCount' = [u \in Urls |->
                               IF u \in Range(r.created) THEN gcalCount[u] + 1
                               ELSE gcalCount[u]]
            /\ mem' = [mem EXCEPT ![p] = all_events]
            /\ store' = IF r.synced_urls # <<>> THEN save_events(all_events, store)
                        ELSE store
            /\ lastOp' = IF r.synced_urls # <<>> THEN Saver[p] ELSE lastOp
    /\ pc' = [pc EXCEPT ![p] = "synced"]
    /\ UNCHANGED <<today, newEvents, handed, eligibleUrls, confirmed, config, fnVars>>

\* The combined calendar-file gate of process p.
ConcCombinedGate(p, next) ==
    LET g == generate_combined_ics(mem[p])
        flipped == g.filepath /\ g.exported_urls # <<>>
        all_events == IF flipped THEN mark_calendar_exported(mem[p], g.exported_urls)
                      ELSE mem[p]
    IN /\ mem' = [mem EXCEPT ![p] = all_events]
       /\ store' = IF flipped THEN save_events(all_events, store) ELSE store
       /\ lastOp' = IF flipped THEN Saver[p] ELSE lastOp
       /\ pc' = [pc EXCEPT ![p] = next]

\* scraper.main of process p, lines 461-473, with --export-calendar.
ConcScraperExport(p) ==
    /\ pc[p] = "synced"
    /\ ConcCombinedGate(p, "exported")
    /\ UNCHANGED <<today, newEvents, gcalCount, handed, eligibleUrls, confirmed,
                   config, fnVars>>

\* export_calendar.main of process p, lines 26-29.
ConcExportLoad(p) ==
    /\ pc[p] = "idle"
    /\ mem' = [mem EXCEPT ![p] = update_event_statuses(load_existing_events(store), today)]
    /\ pc' = [pc EXCEPT ![p] = "x_loaded"]
    /\ UNCHANGED <<store, today, newEvents, gcalCount, handed, eligibleUrls,
                   confirmed, lastOp, config, fnVars>>

\* export_calendar.main of process p, lines 43-54.
ConcExportGate(p) ==
    /\ pc[p] = "x_loaded"
    /\ ConcCombinedGate(p, "x_done")
    /\ UNCHANGED <<today, newEvents, gcalCount, handed, eligibleUrls, confirmed,
                   config, fnVars>>

\* main of process p returns and the process ends.
ConcExit(p) ==
    /\ pc[p] \in {"synced", "exported", "x_done"}
    /\ pc' = [pc EXCEPT ![p] = "exited"]
    /\ mem' = [mem EXCEPT ![p] = <<>>]
    /\ newEvents' = [newEvents EXCEPT ![p] = <<>>]
    /\ UNCHANGED <<store, today, gcalCount, handed, eligibleUrls, confirmed,
                   lastOp, config, fnVars>>

NextConcurrent ==
    \E p \in Procs :
        \/ ConcScraperLoad(p)
        \/ ConcScraperMerge(p)
        \/ ConcScraperGcalSync(p)
        \/ ConcScraperExport(p)
        \/ ConcExportLoad(p)
        \/ ConcExportGate(p)
        \/ ConcExit(p)

SpecConcurrent == InitConcurrent /\ [][NextConcurrent]_vars

\* Process p took a step that wrote events.csv with new content.
Saved(p) == pc'[p] # pc[p] /\ store' # store

\* C26: nothing serializes two runs on the same events.csv: a save by one
\* run writes exactly the set that run holds in memory, so a record or a
\* calendar_exported flag that the other run saved after this run loaded is
\* no longer in the file.
C26_SaveWritesOwnSet ==
    [][\A p \in Procs :
         Saved(p) =>
             /\ StoreIds(store') = Identities(mem'[p])
             /\ \A u \in StoreIds(store') :
                    RowFlagSet(store', u, "calendar_exported")
                        <=> FlagSet(Entry(mem'[p], u), "calendar_exported")]_vars

\* C26 witness: both runs loaded the empty store, run 1 added and saved
\* event a, then run 2 added and saved event b, and a is not in events.csv.
C26_Witness ==
    /\ pc[1] = "merged"
    /\ pc[2] = "merged"
    /\ Identities(mem[1]) = {"a"}
    /\ Identities(mem[2]) = {"b"}
    /\ lastOp = Saver[2]
    /\ "a" \notin StoreIds(store)
    /\ "b" \in StoreIds(store)


----------------------------------------------------------------------------
(* Newly added at most once *)

\* The step is the merge and save of a scraper run.
MergeStep == pc = "loaded" /\ pc' = "merged"

\* C31: an identity is in the newly-added list of at most one scraper run:
\* the merge of a run lists only identities that events.csv did not hold
\* before it, it writes every identity it lists to events.csv, and no step
\* of any run takes an identity out of events.csv again.
C31_NewlyAddedOnce ==
    [][/\ StoreIds(store) \subseteq StoreIds(store')
       /\ MergeStep =>
              /\ Identities(newEvents') \cap StoreIds(store) = {}
              /\ Identities(newEvents') \subseteq StoreIds(store')
              /\ \A u \in Identities(newEvents') :
                     Cardinality(EntriesOf(newEvents', u)) = 1]_vars

\* C31 witness: an earlier scraper run has completed and left event a in
\* events.csv; this run's merge holds a and lists only b as newly added.
C31_Witness ==
    /\ pc = "merged"
    /\ lastOp = "scrape"
    /\ Identities(mem) = {"a", "b"}
    /\ Identities(newEvents) = {"b"}
    /\ StoreIds(store) = {"a", "b"}


----------------------------------------------------------------------------
(* DONE is absorbing *)

\* The in-memory record of u has status DONE.
MemDone(events, u) == HasKey(events, u) /\ Get(Entry(events, u), "status", "") = "DONE"

\* The row of u in events.csv has status DONE.
RowDone(file, u) == MemDone(file.rows, u)

\* C32: the clock never goes back and no step changes the date of a record,
\* so DONE is absorbing: a record that is DONE in memory or in events.csv
\* is DONE after every later step of this and of every later run in which
\* it is held in memory or written, and no gate selects it.
C32_DoneAbsorbing ==
    [][\A u \in Urls :
         /\ today <= today'
         /\ (HasKey(store.rows, u) /\ HasKey(store'.rows, u)) =>
                Entry(store'.rows, u)["date"] = Entry(store.rows, u)["date"]
         /\ RowDone(store, u) => RowDone(store', u)
         /\ (MemDone(mem, u) /\ HasKey(mem', u)) => MemDone(mem', u)
         /\ (RowDone(store, u) /\ HasKey(mem', u)) => MemDone(mem', u)
         /\ MemDone(mem', u) =>
                /\ u \notin Range(sync_to_google_calendar(mem', RepEmails, {}).eligible)
                /\ u \notin Range(generate_combined_ics(mem').eligible)
                /\ eligibleUrls' # eligibleUrls => u \notin Range(eligibleUrls')]_vars

\* C32 witness: event a was classified DONE by a completed run on day 2, a
\* second run on the same day has loaded it, merged and saved, event b is
\* UPCOMING, and a is DONE in memory and in events.csv.
C32_Witness ==
    /\ pc = "merged"
    /\ lastOp = "scrape"
    /\ today = 2
    /\ MemDone(mem, "a")
    /\ RowDone(store, "a")
    /\ HasKey(mem, "b")
    /\ ~MemDone(mem, "b")


----------------------------------------------------------------------------
(* Function under test: save_events, then load_existing_events *)

\* Records as the in-memory set holds them: is_online a boolean, status set,
\* calendar_exported unset, set or absent, and a title of one or of two lines.
RoundTripPool(u) ==
    {[event_url |-> u, title |-> t, date |-> d, time |-> IF d = "" THEN "" ELSE "19:00",
      is_online |-> o, sales_rep |-> "Rep1", status |-> st, calendar_exported |-> x] :
        t \in {"Kafka night", "Kafka\r\nnight"}, d \in {IsoDays[1], ""},
        o \in BOOLEAN, st \in {"UPCOMING", "DONE"}, x \in {"", "True"}}
    \cup {[event_url |-> u, title |-> t, date |-> d, time |-> IF d = "" THEN "" ELSE "19:00",
           is_online |-> o, sales_rep |-> "Rep1", status |-> st] :
        t \in {"Kafka night", "Kafka\r\nnight"}, d \in {IsoDays[1], ""},
        o \in BOOLEAN, st \in {"UPCOMING", "DONE"}}

InitRoundTrip ==
    /\ MainIdle
    /\ args \in {[events |-> e] : e \in DictsOver(RoundTripPool("a"), RoundTripPool("b"))}
    /\ ret = [file |-> NoFile, events |-> <<>>]
    /\ fpc = "call"

CallSave ==
    /\ fpc = "call"
    /\ ret' = [ret EXCEPT !.file = save_events(args.events, ret.file)]
    /\ fpc' = "saved"
    /\ UNCHANGED <<args, mainVars>>

CallLoadBack ==
    /\ fpc = "saved"
    /\ ret' = [ret EXCEPT !.events = load_existing_events(ret.file)]
    /\ fpc' = "return"
    /\ UNCHANGED <<args, mainVars>>

NextRoundTrip == CallSave \/ CallLoadBack

SpecRoundTrip == InitRoundTrip /\ [][NextRoundTrip]_vars

\* The fields of a record that are text in memory and in the file.
RoundTripTexts == {"title", "date", "time", "sales_rep", "status"}

\* C33: save_events followed by load_existing_events on a non-empty set
\* returns the same identities and, for every record, the same title, date,
\* time, sales_rep and status, the same is_online boolean and the same
\* calendar_exported flag.
C33_PersistenceRoundTrip ==
    (fpc = "return" /\ args.events # <<>>) =>
        /\ Identities(ret.events) = Identities(args.events)
        /\ \A u \in Identities(args.events) :
               LET e == Entry(args.events, u)
                   b == Entry(ret.events, u)
               IN /\ \A k \in RoundTripTexts : Get(b, k, "") = Get(e, k, "")
                  /\ b["is_online"] = e["is_online"]
                  /\ FlagSet(b, "calendar_exported") <=> FlagSet(e, "calendar_exported")


----------------------------------------------------------------------------
(* Function under test: the in-memory set from load to mark_calendar_exported *)

\* The file with its first row written a second time, for another sales rep.
RepeatRow(file) ==
    [file EXCEPT !.rows = @ \o <<Put(@[1], "sales_rep", "Rep3")>>]

KeyStores == LoadStores \cup {RepeatRow(f) : f \in ScrapeStores \ {NoFile}}

InitKeys ==
    /\ args \in [file : KeyStores, batch : SeqsUpTo(ScrapePool, MaxBatch)]
    /\ ret = <<>>
    /\ fpc = "call"
    /\ MainIdle

\* scraper.main, lines 466-472.
CallMarkExported ==
    /\ fpc = "return"
    /\ LET g == generate_combined_ics(ret.events)
           flipped == g.filepath /\ g.exported_urls # <<>>
           all_events == IF flipped
                         THEN mark_calendar_exported(ret.events, g.exported_urls)
                         ELSE ret.events
       IN ret' = [ret EXCEPT !.events = all_events,
                             !.file = IF flipped THEN save_events(all_events, @) ELSE @]
    /\ fpc' = "marked"
    /\ UNCHANGED <<args, mainVars>>

NextKeys == CallLoad \/ CallMergeSave \/ CallMarkExported

SpecKeys == InitKeys /\ [][NextKeys]_vars

\* Every entry of the set carries a non-empty event_url and no two entries
\* carry the same one.
KeyedByIdentity(events) ==
    \A i \in 1..Len(events) :
        /\ Get(events[i], "event_url", "") # ""
        /\ \A j \in 1..Len(events) : i # j => events[i]["event_url"] # events[j]["event_url"]

\* C34: after load_existing_events, after update_event_statuses and
\* merge_events, and after mark_calendar_exported, every entry of the
\* in-memory set is held under its own non-empty event_url and no two
\* entries share an event_url, whatever rows the file held.
C34_KeyEqualsIdentity ==
    fpc \in {"loaded", "return", "marked"} => KeyedByIdentity(ret.events)

\* C34 witness: the file held a row without event_url before the row of b,
\* the batch observed a, and the set after the mark holds b and a once each.
C34_Witness ==
    /\ fpc = "marked"
    /\ Len(args.file.rows) = 2
    /\ Get(args.file.rows[1], "event_url", "") = ""
    /\ UrlsOf(ret.events) = <<"b", "a">>
    /\ FlagSet(Entry(ret.events, "a"), "calendar_exported")


----------------------------------------------------------------------------
(* merge_events on a list that was not deduplicated *)

\* The first entry of a list of events that carries event_url u.
FirstOf(events, u) ==
    events[CHOOSE i \in EntriesOf(events, u) : \A j \in EntriesOf(events, u) : i <= j]

\* C35: when the observed list holds a new identity more than once, or
\* records with an empty event_url, merge_events inserts the identity once,
\* with the fields of its first occurrence and status UPCOMING, lists it
\* once as newly added, and neither inserts nor lists a record with an
\* empty event_url.
C35_MergeDeduplicates ==
    fpc = "return" =>
        /\ \A u \in Identities(args.new) \ Identities(args.existing) :
               LET first == Put(FirstOf(args.new, u), "status", "UPCOMING")
               IN /\ Cardinality(EntriesOf(ret.all, u)) = 1
                  /\ Cardinality(EntriesOf(ret.added, u)) = 1
                  /\ Entry(ret.all, u) = first
                  /\ Entry(ret.added, u) = first
        /\ EntriesOf(ret.all, "") = {}
        /\ EntriesOf(ret.added, "") = {}
        /\ Len(ret.all) = Len(args.existing) + Len(ret.added)

\* C35 witness: the observed list held the new identity a with title T1, a
\* record without event_url, and a again with title T2; the merge inserted
\* and listed the first one only.
C35_Witness ==
    /\ fpc = "return"
    /\ args.existing = <<>>
    /\ UrlsOf(args.new) = <<"a", "", "a">>
    /\ args.new[1]["title"] = "T1"
    /\ args.new[3]["title"] = "T2"
    /\ Len(ret.all) = 1
    /\ ret.all[1]["title"] = "T1"
    /\ ret.added = ret.all


----------------------------------------------------------------------------
(* Function under test: filter_upcoming in a scraper run on any day *)

InitFilter ==
    /\ args \in [file : ScrapeStores, batch : SeqsUpTo(ScrapePool, MaxBatch),
                 now : 1..(MaxDay + 1)]
    /\ ret = <<>>
    /\ fpc = "call"
    /\ MainIdle

\* scraper.main, lines 396-405.
CallFilter ==
    /\ fpc = "call"
    /\ ret' = [upcoming |-> filter_upcoming(args.batch, args.now),
               all |-> <<>>, added |-> <<>>]
    /\ fpc' = "filtered"
    /\ UNCHANGED <<args, mainVars>>

\* scraper.main, lines 411-425.
CallFilterMerge ==
    /\ fpc = "filtered"
    /\ LET existing_events ==
               update_event_statuses(load_existing_events(args.file), args.now)
           all_scraped_events ==
               assign_rep_by_territory(deduplicate_events(ret.upcoming), Territories)
           m == merge_events(existing_events, all_scraped_events)
       IN ret' = [upcoming |-> ret.upcoming, all |-> m.all, added |-> m.added]
    /\ fpc' = "return"
    /\ UNCHANGED <<args, mainVars>>

NextFilter == CallFilter \/ CallFilterMerge

SpecFilter == InitFilter /\ [][NextFilter]_vars

\* The event has a valid date before day now.
PastDated(e, now) == ValidDate(e) /\ strptime_date(e["date"]) < now

\* C36: in a scraper run no record with a valid date before the day of the
\* run is added: filter_upcoming hands on exactly the observed records that
\* are not past-dated, in order, before deduplication, so the run adds the
\* unknown identities that were observed with a date that is not past, each
\* with such a date.
C36_NoPastDatedInsert ==
    /\ fpc \in {"filtered", "return"} =>
           ret.upcoming = SelectSeq(args.batch, LAMBDA e : ~PastDated(e, args.now))
    /\ fpc = "return" =>
           /\ \A i \in 1..Len(ret.added) : ~PastDated(ret.added[i], args.now)
           /\ Identities(ret.added) =
                  {Get(args.batch[i], "event_url", "") :
                       i \in {k \in 1..Len(args.batch) : ~PastDated(args.batch[k], args.now)}}
                  \ StoreIds(args.file)

\* C36 witness: on day 2 the batch observed a dated day 1 and then a dated
\* day 2; the file did not exist; a was added with the date of day 2.
C36_Witness ==
    /\ fpc = "return"
    /\ args.now = 2
    /\ ~args.file.exists
    /\ Len(args.batch) = 2
    /\ args.batch[1] = Scraped("a", IsoDays[1])
    /\ args.batch[2] = Scraped("a", IsoDays[2])
    /\ Len(ret.added) = 1
    /\ ret.added[1]["event_url"] = "a"
    /\ ret.added[1]["date"] = IsoDays[2]


----------------------------------------------------------------------------
(* save_events on an empty set *)

\* C37: save_events called with an empty set leaves events.csv as it is:
\* a file that does not exist is not created, and a file that exists keeps
\* its header and its rows.
C37_EmptySaveNoOp ==
    (fpc \in {"return", "marked"} /\ ret.events = <<>>) => ret.file = args.file

\* C37 witness: the file held one row, without event_url, so nothing was
\* loaded; nothing was observed; save_events was called with the empty set
\* and the file still holds the row.
C37_Witness ==
    /\ fpc = "return"
    /\ ret.events = <<>>
    /\ args.batch = <<>>
    /\ args.file.exists
    /\ Len(args.file.rows) = 1
    /\ ret.file = args.file

====
